---------------------------- MODULE Spec2Model ----------------------------
(***************************************************************************)
(* Model of the message path of the multi-agent chat threading system:     *)
(*   src/src/services/message_handler.py      (MessageHandler)             *)
(*   src/src/services/summarization_engine.py (SummarizationEngine)        *)
(*   src/src/utils/token_counter.py           (TokenCounter)               *)
(*                                                                         *)
(* Spec     : concurrent process_user_message calls, the per-thread lock   *)
(*            registry, the storage records they write and the detached    *)
(*            background summary tasks.                                    *)
(* TrimSpec : TokenCounter.trim_context_to_fit applied to bounded inputs.  *)
(* GatewaySpec, OrchSpec : one chat_completion / generate_response call.   *)
(* PipeSpec, FairPipeSpec, UpdateSpec : AgentCollaborationService.         *)
(* ClassifySpec, ExtractSpec, TriggerSpec, CountSpec : one function        *)
(*            applied to bounded inputs.                                   *)
(* LateSummarySpec : the message path with a late summary task.            *)
(* LongTailSpec : the message path on a thread whose latest summary is     *)
(*            more than max_context_messages messages old.                 *)
(* SummarySpec : generate_summary on stored threads, empty ones included.  *)
(* FairSpec : Spec with the event loop running every coroutine that can.   *)
(***************************************************************************)
EXTENDS Integers, Sequences, FiniteSets, TLC

(***************************************************************************)
(* Bounds of the model.                                                    *)
(***************************************************************************)
\* number of process_user_message calls issued in one behaviour
NumCalls == 2
\* number of update_agent_model calls issued in one behaviour of UpdateSpec
MaxUpdates == 2
\* longest message list handed to trim_context_to_fit in TrimSpec
MaxTrimLen == 3

Calls == 1..NumCalls

(***************************************************************************)
(* Program constants.                                                      *)
(***************************************************************************)
MESSAGE_TOKEN_OVERHEAD == 4
CONVERSATION_TOKEN_OVERHEAD == 3
CHARS_PER_TOKEN_ESTIMATE == 4
\* settings.summarization_message_threshold
SummarizationThreshold == 10
\* settings.max_context_messages
MaxContextMessages == 20
\* settings.max_context_tokens
MaxContextTokens == 8000

(***************************************************************************)
(* Thread ids.  "A" and "B" are stored threads; "ghost" is a well-formed   *)
(* id with no Thread row; "bad" is not a UUID.                             *)
(***************************************************************************)
Threads == {"A", "B"}
ThreadIds == Threads \cup {"ghost", "bad"}

ValidUUID(tid) == tid # "bad"

\* Models of the registry (models/registry.py) and two ids outside it.
\* "openai/gpt-4-turbo" has a tiktoken encoding, "anthropic/claude-3.5-sonnet" has none.
ExactModel == "openai/gpt-4-turbo"
ApproxModel == "anthropic/claude-3.5-sonnet"
ValidModels == {ExactModel, ApproxModel}
NoModel == "None"
RequestedModels == {NoModel, ApproxModel, "bogus/model"}

\* Thread.current_model of the stored threads
CurrentModel(th) == ExactModel

(***************************************************************************)
(* Texts.  A text is abstracted to what the code reads of it: whether it   *)
(* starts with "[Summary]" (marker "summary") or with                      *)
(* CONTEXT_SUMMARY_PREFIX (marker "ctx"), its length in characters, and    *)
(* the number of tokens the exact tokenizer gives it.                      *)
(***************************************************************************)
Text(marker, len, tok) == [marker |-> marker, len |-> len, tok |-> tok]

SystemPromptText == Text("none", 120, 28)
UserText == Text("none", 24, 6)
AssistantText == Text("none", 48, 11)
\* CONTEXT_SUMMARY_PREFIX (33 characters) followed by the summary text
PrefixedSummaryText == Text("ctx", 33 + 200, 7 + 45)

(***************************************************************************)
(* TokenCounter                                                            *)
(***************************************************************************)
HasEncoder(model) == model = ExactModel

\* the approximation rounds up (the mutant of count_tokens)
count_tokens_rounding_up(text, model) ==
    IF HasEncoder(model) THEN text.tok
    ELSE (text.len + CHARS_PER_TOKEN_ESTIMATE - 1) \div CHARS_PER_TOKEN_ESTIMATE

\* count_tokens: tiktoken for the models that have an encoding, otherwise
\* len(text) // CHARS_PER_TOKEN_ESTIMATE
count_tokens(text, model) ==
    IF HasEncoder(model) THEN text.tok
    ELSE text.len \div CHARS_PER_TOKEN_ESTIMATE

RECURSIVE SumTokens(_, _, _)
SumTokens(messages, i, model) ==
    IF i = 0 THEN 0
    ELSE SumTokens(messages, i - 1, model)
         + count_tokens(messages[i].content, model) + MESSAGE_TOKEN_OVERHEAD

\* the conversation overhead is left out (the mutant of count_messages_tokens)
count_messages_tokens_no_base(messages, model) ==
    SumTokens(messages, Len(messages), model)

count_messages_tokens(messages, model) ==
    SumTokens(messages, Len(messages), model) + CONVERSATION_TOKEN_OVERHEAD

\* the test of lines 137-144: a system entry, or an assistant entry whose
\* content starts with "[Summary]" or CONTEXT_SUMMARY_PREFIX
IsPreserved(msg, preserve_system, preserve_summary) ==
    \/ preserve_system /\ msg.role = "system"
    \/ /\ ~(preserve_system /\ msg.role = "system")
       /\ preserve_summary
       /\ msg.role = "assistant"
       /\ msg.content.marker \in {"summary", "ctx"}

\* cost of one history message in the walk of lines 160-166, without the
\* per-message overhead (the mutant of MsgCost)
MsgCostNoOverhead(msg, model) == count_tokens(msg.content, model)

\* cost of one history message in the walk of lines 160-166
MsgCost(msg, model) == count_tokens(msg.content, model) + MESSAGE_TOKEN_OVERHEAD

\* the walk with trimmed_history.append(msg) in place of insert(0, msg): the
\* admitted messages come out newest first (a mutant of AdmitHistory)
RECURSIVE AdmitHistoryAppended(_, _, _, _)
AdmitHistoryAppended(history, i, remaining_tokens, model) ==
    IF i = 0 THEN << >>
    ELSE LET msg_tokens == MsgCost(history[i], model)
         IN IF remaining_tokens - msg_tokens >= 0
            THEN <<history[i]>> \o AdmitHistoryAppended(history, i - 1,
                                       remaining_tokens - msg_tokens, model)
            ELSE << >>

\* the walk with `continue` in place of `break`: a message that does not fit
\* is skipped and older ones are still tried (a mutant of AdmitHistory)
RECURSIVE AdmitHistorySkipping(_, _, _, _)
AdmitHistorySkipping(history, i, remaining_tokens, model) ==
    IF i = 0 THEN << >>
    ELSE LET msg_tokens == MsgCost(history[i], model)
         IN IF remaining_tokens - msg_tokens >= 0
            THEN Append(AdmitHistorySkipping(history, i - 1,
                                             remaining_tokens - msg_tokens, model),
                        history[i])
            ELSE AdmitHistorySkipping(history, i - 1, remaining_tokens, model)

\* the walk from newest (index i) to oldest: admit while the cost fits, stop
\* at the first message that does not fit
RECURSIVE AdmitHistory(_, _, _, _)
AdmitHistory(history, i, remaining_tokens, model) ==
    IF i = 0 THEN << >>
    ELSE LET msg_tokens == MsgCost(history[i], model)
         IN IF remaining_tokens - msg_tokens >= 0
            THEN Append(AdmitHistory(history, i - 1,
                                     remaining_tokens - msg_tokens, model),
                        history[i])
            ELSE << >>

trim_context_to_fit(messages, model, max_tokens, preserve_system, preserve_summary) ==
    IF messages = << >> THEN messages
    ELSE LET Keep(m) == IsPreserved(m, preserve_system, preserve_summary)
             Hist(m) == ~IsPreserved(m, preserve_system, preserve_summary)
             preserved == SelectSeq(messages, Keep)
             history == SelectSeq(messages, Hist)
             preserved_tokens == count_messages_tokens(preserved, model)
         IN IF preserved_tokens >= max_tokens THEN preserved
            ELSE preserved \o AdmitHistory(history, Len(history),
                                           max_tokens - preserved_tokens, model)


(***************************************************************************)
(* State.                                                                  *)
(***************************************************************************)
VARIABLES
    pc,          \* pc[c]: where call c of process_user_message stands
    cthread,     \* cthread[c]: thread_id argument of call c
    cmodel,      \* cmodel[c]: requested_model argument of call c
    lockOf,      \* lockOf[c]: the Lock object _get_thread_lock returned (0: none)
    seen,        \* seen[c]: thread.message_count as loaded by call c
    ctx,         \* ctx[c]: the context _assemble_context returned to call c
    sent,        \* sent[c]: the trimmed context handed to the gateway
    result,      \* result[c]: "pending", "response" or the error raised
    brought,     \* brought[c]: the message counts call c wrote, in order
    lockLock,    \* holder of self._lock_lock (0: free)
    locks,       \* self._locks: thread id -> Lock object (0: no entry)
    created,     \* number of Lock objects created so far
    lk,          \* lk[l]: state of Lock object l (_locked, _waiters, head woken)
    count,       \* Thread.message_count of each stored thread
    msgs,        \* Message rows of each stored thread, in insertion order
    summaries,   \* Summary rows of each stored thread, in insertion order
    bg,          \* bg[c]: where the summary task spawned by call c stands
    bgCovered,   \* bg task: ids of the messages it read
    bgAt,        \* bg task: timestamp of its transaction (Summary.created_at)
    bgInner,     \* outcome of SummarizationEngine.generate_summary
    bgTask,      \* outcome of the task MessageHandler._generate_summary_async
    tin,         \* TrimSpec: messages handed to trim_context_to_fit
    tmodel,      \* TrimSpec: model
    tmax,        \* TrimSpec: max_tokens
    tflags,      \* TrimSpec: <<preserve_system, preserve_summary>>
    tout,        \* TrimSpec: the list returned
    tpc,         \* TrimSpec: "input", "trimmed" or "retrimmed"
    gpc,         \* GatewaySpec: where the chat_completion call stands
    gmodel,      \* GatewaySpec: model argument
    gmaxtok,     \* GatewaySpec: max_tokens argument (0: None)
    gpayload,    \* GatewaySpec: the payload of the latest attempt
    gtries,      \* GatewaySpec: attempts made so far
    glog,        \* GatewaySpec: what the upstream did in each attempt
    gout,        \* GatewaySpec: what the call returned or raised
    opc,         \* OrchSpec: where the generate_response call stands
    othread,     \* OrchSpec: thread_current_model argument
    oreq,        \* OrchSpec: requested_model argument
    oout,        \* OrchSpec: what generate_response returned or raised
    ppc,         \* PipeSpec: where the collaborate call stands
    pin,         \* PipeSpec: arguments of collaborate
    pst,         \* PipeSpec: local variables of collaborate
    pcalls,      \* PipeSpec: the chat_completion calls issued, in order
    pout,        \* PipeSpec: what collaborate returned or raised
    agents,      \* self.agents: role -> AgentConfig
    fpc,         \* a call of one function on its own: "input" or "returned"
    fargs,       \* its arguments
    fret         \* what it returned

callVars == <<pc, cthread, cmodel, lockOf, seen, ctx, sent, result, brought>>
lockVars == <<lockLock, locks, created, lk>>
dbVars == <<count, msgs, summaries>>
bgVars == <<bg, bgCovered, bgAt, bgInner, bgTask>>
trimVars == <<tin, tmodel, tmax, tflags, tout, tpc>>
gwVars == <<gpc, gmodel, gmaxtok, gpayload, gtries, glog, gout>>
orchVars == <<opc, othread, oreq, oout>>
pipeVars == <<ppc, pin, pst, pcalls, pout, agents>>
fnVars == <<fpc, fargs, fret>>
vars == <<callVars, lockVars, dbVars, bgVars, trimVars, gwVars, orchVars, pipeVars,
          fnVars>>

\* the variables of the other specifications, which the actions of one
\* specification leave alone
mainVars == <<callVars, lockVars, dbVars, bgVars>>
sideVars == <<trimVars, gwVars, orchVars, pipeVars, fnVars>>
nonTrimVars == <<mainVars, gwVars, orchVars, pipeVars, fnVars>>
nonGwVars == <<mainVars, trimVars, orchVars, pipeVars, fnVars>>
nonPipeVars == <<mainVars, trimVars, gwVars, orchVars, fnVars>>
nonFnVars == <<mainVars, trimVars, gwVars, orchVars, pipeVars>>
nonPipeFnVars == <<mainVars, trimVars, gwVars, orchVars>>

(***************************************************************************)
(* Storage rows.  A Message row holds role, content, its message_id (its   *)
(* position in msgs[th]) and created_at; kind tells a context entry built  *)
(* from a Message row from the prompt and summary entries.  The request    *)
(* path stamps created_at with its own clock, one call at a time per       *)
(* thread, so the stamps of a thread's messages increase.  A Summary row   *)
(* gets created_at from the database (func.now(): the start of the         *)
(* transaction that read its input); on the scale of the thread's stamps   *)
(* it is the stamp of the newest message created before that start.        *)
(***************************************************************************)
Entry(role, content, kind, id, at) ==
    [role |-> role, content |-> content, kind |-> kind, id |-> id, at |-> at]

Message(role, content, id, at) == Entry(role, content, "message", id, at)

\* a stored thread with n messages, alternating user and assistant
InitialMessages(n) ==
    [i \in 1..n |-> Message(IF i % 2 = 1 THEN "user" ELSE "assistant",
                            IF i % 2 = 1 THEN UserText ELSE AssistantText, i, i)]

\* message counts the stored threads start from
InitialCounts == [A |-> {8, 9, 24}, B |-> {0}]

LastStamp(th) == IF msgs[th] = << >> THEN 0 ELSE msgs[th][Len(msgs[th])].at

(***************************************************************************)
(* asyncio.Lock: acquire takes a free lock with no waiter at once,         *)
(* otherwise queues; release unlocks and wakes the first waiter, which     *)
(* takes the lock when it resumes.                                         *)
(***************************************************************************)
FreshLock == [locked |-> FALSE, waiters |-> << >>, woken |-> FALSE]

Released(l) ==
    [lk EXCEPT ![l] = [locked |-> FALSE,
                       waiters |-> lk[l].waiters,
                       woken |-> lk[l].waiters # << >>]]

InCriticalSection(c) ==
    pc[c] \in {"locked", "store_user", "trigger", "assemble", "generate", "store_asst"}

(***************************************************************************)
(* MessageHandler._assemble_context                                        *)
(***************************************************************************)
\* A context entry is the {role, content} dict of the code, with the kind,
\* id and created_at of the row it was built from.  The rows of a thread
\* are held in ascending created_at order.
Min(a, b) == IF a <= b THEN a ELSE b

\* .limit(n) of a query result
Limit(rows, n) == SubSeq(rows, 1, Min(n, Len(rows)))

\* a query result in the opposite order (order_by desc of rows held
\* ascending; reversed() of a list)
Reversed(s) == [i \in 1..Len(s) |-> s[Len(s) + 1 - i]]

\* rows whose created_at is not before the summary's (the mutant of CreatedAfter)
CreatedAtOrAfter(rows, last_summary_time) ==
    LET Later(r) == r.at >= last_summary_time IN SelectSeq(rows, Later)

\* .where(Message.created_at > last_summary_time), lines 306-312
CreatedAfter(rows, last_summary_time) ==
    LET Later(r) == r.at > last_summary_time IN SelectSeq(rows, Later)

\* the oldest n rows, in ascending order (the mutant of MostRecent)
OldestFirst(rows, n) == Limit(rows, n)

\* order_by(created_at.desc()).limit(n), then reversed: lines 315-326
MostRecent(rows, n) == Reversed(Limit(Reversed(rows), n))

\* the Summary rows with the greatest created_at: order_by(desc).limit(1)
\* returns one of them
LatestSummaries(sums) ==
    {i \in 1..Len(sums) : \A j \in 1..Len(sums) : sums[j].at <= sums[i].at}

\* latest: index of the summary the query returned, 0 when there is none
assemble_context(ms, sums, latest) ==
    LET prompt == Entry("system", SystemPromptText, "prompt", 0, 0)
    IN IF latest = 0
       THEN <<prompt>> \o MostRecent(ms, MaxContextMessages)
       ELSE <<prompt,
              Entry("assistant", PrefixedSummaryText, "summary", latest, sums[latest].at)>>
            \o Limit(CreatedAfter(ms, sums[latest].at), MaxContextMessages)

(***************************************************************************)
(* SummarizationEngine                                                     *)
(***************************************************************************)
\* the test of line 66 with `>=` in place of `%`: due from the threshold on
\* (a mutant of should_trigger)
should_trigger_from_threshold(message_count) ==
    message_count > 0 /\ message_count >= SummarizationThreshold

\* should_trigger, for a stored thread: line 66
should_trigger(message_count) ==
    message_count > 0 /\ message_count % SummarizationThreshold = 0

\* lines 55-74: UUID(thread_id) fails for an id that is no UUID; the select
\* gives None for an id with no Thread row; `if count and ...`
should_trigger_call(thread_id, counts) ==
    IF ~ValidUUID(thread_id) THEN FALSE
    ELSE LET row == IF thread_id \in Threads
                    THEN [found |-> TRUE, message_count |-> counts[thread_id]]
                    ELSE [found |-> FALSE, message_count |-> 0]
         IN /\ row.found
            /\ row.message_count # 0
            /\ should_trigger(row.message_count)

\* ids of the last `threshold` messages: lines 94-100
LastMessageIds(ms) ==
    {i \in 1..Len(ms) : i > Len(ms) - SummarizationThreshold}

\* what the task of _generate_summary_async ends with when it lets an
\* exception of generate_summary through (the mutant of generate_summary_async)
generate_summary_unguarded(inner) ==
    IF inner = "raised" THEN "raised" ELSE "returned"

\* _generate_summary_async: the try body returns when generate_summary
\* returns; `except Exception` logs the error and returns as well
generate_summary_async(inner) ==
    IF inner = "raised" THEN "returned" ELSE "returned"

(***************************************************************************)
(* OpenRouterAdapter: one attempt of _chat_completion_with_retry and the   *)
(* tenacity policy around it.                                              *)
(***************************************************************************)
\* stop_after_attempt(3)
StopAfterAttempt == 3

\* What the upstream does in one attempt: a 2xx response whose body has the
\* expected fields (with or without "model" and "usage"), a 2xx response
\* whose body lacks "choices", a transport timeout, a non-2xx status (429 with
\* or without a retry-after header, 401, 400 with or without a JSON error
\* message, 500, 503), or a transport failure that is not a timeout.
Upstream(kind, status, header, body) ==
    [kind |-> kind, status |-> status, header |-> header, body |-> body]

UpstreamBehaviours ==
    {Upstream("response", 200, "none", "full"),
     Upstream("response", 200, "none", "bare"),
     Upstream("response", 200, "none", "no_choices"),
     Upstream("timeout", 0, "none", "none"),
     Upstream("response", 429, "30", "none"),
     Upstream("response", 429, "none", "none"),
     Upstream("response", 401, "none", "none"),
     Upstream("response", 400, "none", "json_message"),
     Upstream("response", 400, "none", "not_json"),
     Upstream("response", 500, "none", "none"),
     Upstream("response", 503, "none", "none"),
     Upstream("network", 0, "none", "none")}

\* An exception: its class, the fixed part of its message, the status and
\* detail the message embeds, and the retry_after attribute.
Exc(class, message, status, detail, retry_after) ==
    [class |-> class, message |-> message, status |-> status,
     detail |-> detail, retry_after |-> retry_after]

NoExc == Exc("none", "none", 0, "none", "none")

\* The dict a successful attempt returns (lines 144-150).
Result(content, model, tokens, finish_reason) ==
    [content |-> content, model |-> model, tokens |-> tokens,
     finish_reason |-> finish_reason]

NoResult == Result("none", "none", 0, "none")

\* lines 119-127: max_tokens enters the payload only when it is truthy
Payload(model, max_tokens) ==
    [model |-> model, has_max_tokens |-> max_tokens # 0, max_tokens |-> max_tokens]

NoPayload == Payload("none", 0)

\* lines 166-199: the exception raised for an HTTPStatusError
http_status_error(up) ==
    IF up.status = 429
    THEN Exc("OpenRouterRateLimitError", "Rate limit exceeded. Retry after",
             0, "none", IF up.header = "none" THEN "unknown" ELSE up.header)
    ELSE IF up.status = 401
    THEN Exc("OpenRouterAuthError", "Authentication failed", 0, "none", "none")
    ELSE IF up.status = 400
    THEN Exc("OpenRouterError", "Bad request", 0,
             IF up.body = "json_message" THEN "upstream error message" ELSE "str(e)",
             "none")
    ELSE Exc("OpenRouterError", "OpenRouter API error", up.status, "str(e)", "none")

\* lines 129-203: one attempt; ok tells a return from a raise
attempt_once(model, up) ==
    IF up.kind = "timeout"
    THEN [ok |-> FALSE, result |-> NoResult,
          exc |-> Exc("httpx.TimeoutException", "timeout", 0, "none", "none")]
    ELSE IF up.kind = "network"
    THEN [ok |-> FALSE, result |-> NoResult,
          exc |-> Exc("OpenRouterError", "Network error", 0, "str(e)", "none")]
    ELSE IF up.status # 200
    THEN [ok |-> FALSE, result |-> NoResult, exc |-> http_status_error(up)]
    ELSE IF up.body = "no_choices"
    THEN [ok |-> FALSE, result |-> NoResult,
          exc |-> Exc("KeyError", "choices", 0, "none", "none")]
    ELSE [ok |-> TRUE, exc |-> NoExc,
          result |-> IF up.body = "full"
                     THEN Result("reply", "upstream model name", 42, "stop")
                     ELSE Result("reply", model, 0, "stop")]

\* every exception is retried (the mutant of retry_if_timeout)
retry_if_any(exc) == TRUE

\* retry_if_exception_type(httpx.TimeoutException)
retry_if_timeout(exc) == exc.class = "httpx.TimeoutException"

\* the policy stops after two attempts (the mutant of stop_after_attempt)
stop_after_two(attempt_number) == attempt_number >= 2

\* stop_after_attempt(3)
stop_after_attempt(attempt_number) == attempt_number >= StopAfterAttempt

(***************************************************************************)
(* LLMOrchestrator._determine_effective_model: "invalid" when it raises    *)
(***************************************************************************)
\* `if requested_model:` -- None and the empty string are both falsy
Truthy(requested_model) == requested_model \notin {NoModel, ""}

\* an invalid requested model falls back to the thread's model (the mutant
\* of determine_effective_model)
determine_with_fallback(thread_current_model, requested_model) ==
    IF Truthy(requested_model) /\ requested_model \in ValidModels
    THEN requested_model
    ELSE IF thread_current_model \in ValidModels THEN thread_current_model
         ELSE "invalid"

\* the ValueError of lines 119-123 and 131-134
invalid_model_error(thread_current_model, requested_model) ==
    Exc("ValueError",
        IF Truthy(requested_model) THEN "Invalid requested model"
        ELSE "Invalid thread model",
        0,
        IF Truthy(requested_model) THEN requested_model ELSE thread_current_model,
        "none")

determine_effective_model(thread_current_model, requested_model) ==
    IF Truthy(requested_model)
    THEN IF requested_model \in ValidModels THEN requested_model ELSE "invalid"
    ELSE IF thread_current_model \in ValidModels THEN thread_current_model
         ELSE "invalid"

(***************************************************************************)
(* AgentCollaborationService: classify_complexity, extract_key_sections    *)
(* and the prompts of the three stages.                                    *)
(*                                                                         *)
(* A query is abstracted to what classify_complexity reads of it: its      *)
(* length, the number of matches re.findall gives for                      *)
(* multi_question_pattern, and whether it holds an analysis keyword or an  *)
(* explanatory keyword ("none", "lower": as listed, "upper": in capitals). *)
(* A context is None (given = FALSE) or a string abstracted the same way.  *)
(***************************************************************************)
\* COMPLEXITY_THRESHOLDS["min_length"]
COMPLEXITY_MIN_LENGTH == 100

QueryText(len, matches, analysis, explanatory) ==
    [len |-> len, matches |-> matches, analysis |-> analysis,
     explanatory |-> explanatory]

ContextText(given, len, analysis, explanatory) ==
    [given |-> given, len |-> len, analysis |-> analysis,
     explanatory |-> explanatory]

NoContext == ContextText(FALSE, 0, "none", "none")

\* str.lower() on a keyword occurrence
Lower(occurrence) == IF occurrence = "upper" THEN "lower" ELSE occurrence

\* the keywords are looked for in the context when one is given and in the
\* query otherwise, as with full_text = context or query (the mutant of
\* InFullTextLower)
InContextOrQueryLower(query_occurrence, context, context_occurrence) ==
    IF context.given /\ context.len # 0
    THEN Lower(context_occurrence) = "lower"
    ELSE Lower(query_occurrence) = "lower"

\* `kw in full_text_lower` for some keyword of the list, where
\* full_text = query + (context or "")
InFullTextLower(query_occurrence, context, context_occurrence) ==
    \/ Lower(query_occurrence) = "lower"
    \/ context.given /\ Lower(context_occurrence) = "lower"

\* the context adds its point whenever it is given (the mutant of
\* ContextFactor)
ContextFactorAnyLength(context) == IF context.given THEN 1 ELSE 0

\* lines 213-216: `if context and len(context) > 50`
ContextFactor(context) ==
    IF context.given /\ context.len # 0 /\ context.len > 50 THEN 1 ELSE 0

\* lines 180-226
classify_complexity(query, context) ==
    LET length_factor == IF query.len >= COMPLEXITY_MIN_LENGTH THEN 2 ELSE 0
        multi_factor == IF query.matches >= 1 /\ query.matches >= 2 THEN 3 ELSE 0
        analysis_factor ==
            IF InFullTextLower(query.analysis, context, context.analysis)
            THEN 2 ELSE 0
        complexity_factor ==
            IF InFullTextLower(query.explanatory, context, context.explanatory)
            THEN 1 ELSE 0
        score == length_factor + multi_factor + analysis_factor
                 + complexity_factor + ContextFactor(context)
        Reason(factor, name) == IF factor > 0 THEN <<name>> ELSE << >>
    IN [score |-> score,
        is_complex |-> score >= 4,
        reasons |-> Reason(length_factor, "query_length")
                    \o Reason(multi_factor, "multi_questions")
                    \o Reason(analysis_factor, "analysis_keywords")
                    \o Reason(complexity_factor, "complexity_keywords")
                    \o Reason(ContextFactor(context), "has_context"),
        recommendation |-> IF score >= 4 THEN "full_pipeline" ELSE "skip_reviewer"]

\* an LLM reply text, abstracted to what collaborate and
\* extract_key_sections read of it: which reply it is, its length, and the
\* length of '\n'.join(key_parts) that lines 246-277 extract from it
ReplyText(id, len, keylen) == [id |-> id, len |-> len, keylen |-> keylen]

NoText == ReplyText("none", 0, 0)

\* length of the elision marker of line 282: two newlines, two "..." and a
\* bracketed note of eight characters
ELISION_MARKER_LEN == 16

\* len(s[:n]) and len(s[-n:]) of a string of length len, for n >= 0;
\* s[-0:] is the whole string
HeadSliceLen(len, n) == Min(len, n)
TailSliceLen(len, n) == IF n = 0 THEN len ELSE Min(len, n)

\* lines 276-288, on lengths: which text is returned and how long it is
extract_key_sections(draft, max_chars) ==
    LET half == max_chars \div 2
        summary ==
            IF draft.keylen > max_chars
            THEN [kind |-> "elided",
                  len |-> HeadSliceLen(draft.keylen, half) + ELISION_MARKER_LEN
                          + TailSliceLen(draft.keylen, half)]
            ELSE [kind |-> "key_parts", len |-> draft.keylen]
    IN IF summary.len < 100 /\ draft.len > 0
       THEN IF draft.len > max_chars
            THEN [kind |-> "truncated_draft", len |-> max_chars + 3, of |-> draft.id]
            ELSE [kind |-> "whole_draft", len |-> draft.len, of |-> draft.id]
       ELSE [kind |-> summary.kind, len |-> summary.len, of |-> draft.id]

NoSummary == [kind |-> "none", len |-> 0, of |-> "none"]

\* AgentConfig and DEFAULT_AGENTS
AgentRoles == {"planner", "writer", "reviewer"}

AgentConfig(role, model, system_prompt, description) ==
    [role |-> role, model |-> model, system_prompt |-> system_prompt,
     description |-> description]

DEFAULT_AGENTS ==
    [r \in AgentRoles |->
        AgentConfig(r,
                    IF r = "writer" THEN ApproxModel ELSE ExactModel,
                    <<"system prompt of", r>>,
                    <<"description of", r>>)]

\* the new record keeps only the role and the model: system_prompt and
\* description are left to their defaults (the mutant of updated_config)
updated_config_partial(config, model) ==
    AgentConfig(config.role, model, <<"system prompt of", "none">>,
                <<"description of", "none">>)

\* lines 157-163: the AgentConfig that update_agent_model stores
updated_config(config, model) ==
    AgentConfig(config.role, model, config.system_prompt, config.description)

NoConfig == AgentConfig("none", "none", <<"system prompt of", "none">>,
                        <<"description of", "none">>)

\* the user prompt of a stage: the context prefix (present when the context
\* is truthy), the query, and the plan and draft summary it embeds
StagePrompt(context, query, plan, draft_summary) ==
    [context_prefix |-> context.given /\ context.len # 0,
     query |-> query, plan |-> plan, draft_summary |-> draft_summary]

\* how a call that has not ended yet is recorded
PendingReply == [ok |-> FALSE, content |-> NoText, tokens |-> 0, exc |-> NoExc]

\* one adapter.chat_completion call as the adapter sees it: its keyword
\* arguments and how it ended
StageCall(config, prompt, temperature, max_tokens) ==
    [model |-> config.model, system |-> config.system_prompt,
     user |-> prompt, temperature |-> temperature, max_tokens |-> max_tokens,
     outcome |-> PendingReply]

\* the call that is awaited ends with the reply
Ended(calls, reply) == [calls EXCEPT ![Len(calls)].outcome = reply]

\* the reviewer runs for every query (a mutant of use_reviewer)
use_reviewer_always(complexity, force_full_pipeline) == TRUE

\* force_full_pipeline is ignored (a mutant of use_reviewer)
use_reviewer_unforced(complexity, force_full_pipeline) == complexity.is_complex

\* line 321
use_reviewer(complexity, force_full_pipeline) ==
    complexity.is_complex \/ force_full_pipeline

\* `text[:500] + "..." if len(text) > 500 else text`
OutputPreview(text) ==
    IF text.len > 500 THEN [id |-> text.id, len |-> 503, cut |-> TRUE]
    ELSE [id |-> text.id, len |-> text.len, cut |-> FALSE]

\* an entry of process_steps; skipped_score is -1 when the entry has no
\* skipped_reason
ProcessStep(step, role, model, output, tokens, skipped_score) ==
    [step |-> step, role |-> role, model |-> model, output |-> output,
     tokens |-> tokens, skipped_score |-> skipped_score]

\* an entry of agents_used
AgentUsed(role, model, tokens, skipped) ==
    [role |-> role, model |-> model, tokens |-> tokens, skipped |-> skipped]

NoComplexity ==
    [score |-> 0, is_complex |-> FALSE, reasons |-> << >>,
     recommendation |-> "none"]

(***************************************************************************)
(* Initial states.                                                         *)
(***************************************************************************)
GatewayIdle ==
    /\ gpc = "idle"
    /\ gmodel = ExactModel
    /\ gmaxtok = 0
    /\ gpayload = NoPayload
    /\ gtries = 0
    /\ glog = << >>
    /\ gout = [result |-> NoResult, exc |-> NoExc]

NoLocals ==
    [complexity |-> NoComplexity, use_reviewer |-> FALSE,
     planner_config |-> NoConfig, writer_config |-> NoConfig,
     reviewer_config |-> NoConfig,
     plan |-> NoText, draft |-> NoText, final_response |-> NoText,
     draft_summary |-> NoSummary,
     planner_tokens |-> 0, writer_tokens |-> 0, reviewer_tokens |-> 0,
     total_tokens |-> 0, process_steps |-> << >>]

NoPipeResult ==
    [final_response |-> NoText, total_tokens |-> 0, agents_used |-> << >>,
     complexity |-> NoComplexity, reviewer_used |-> FALSE,
     has_process |-> FALSE, steps |-> << >>]

PipeArgs(query, context, include_process, force_full_pipeline) ==
    [query |-> query, context |-> context, include_process |-> include_process,
     force_full_pipeline |-> force_full_pipeline]

FnIdle ==
    /\ fpc = "idle"
    /\ fargs = << >>
    /\ fret = << >>

PipeIdle ==
    /\ FnIdle
    /\ ppc = "idle"
    /\ pin = PipeArgs(QueryText(0, 0, "none", "none"), NoContext, TRUE, FALSE)
    /\ pst = NoLocals
    /\ pcalls = << >>
    /\ pout = [result |-> NoPipeResult, exc |-> NoExc]
    /\ agents = DEFAULT_AGENTS

OrchIdle ==
    /\ opc = "idle"
    /\ othread = ExactModel
    /\ oreq = NoModel
    /\ oout = [result |-> NoResult, exc |-> NoExc]

MainInit ==
    /\ pc = [c \in Calls |-> "idle"]
    /\ cthread = [c \in Calls |-> "A"]
    /\ cmodel = [c \in Calls |-> NoModel]
    /\ lockOf = [c \in Calls |-> 0]
    /\ seen = [c \in Calls |-> 0]
    /\ ctx = [c \in Calls |-> << >>]
    /\ sent = [c \in Calls |-> << >>]
    /\ result = [c \in Calls |-> "pending"]
    /\ brought = [c \in Calls |-> << >>]
    /\ lockLock = 0
    /\ locks = [t \in ThreadIds |-> 0]
    /\ created = 0
    /\ lk = [l \in Calls |-> FreshLock]
    /\ summaries = [t \in Threads |-> << >>]
    /\ bg = [c \in Calls |-> "none"]
    /\ bgCovered = [c \in Calls |-> {}]
    /\ bgAt = [c \in Calls |-> 0]
    /\ bgInner = [c \in Calls |-> "pending"]
    /\ bgTask = [c \in Calls |-> "pending"]

TrimIdle ==
    /\ tin = << >>
    /\ tmodel = ExactModel
    /\ tmax = 0
    /\ tflags = <<TRUE, TRUE>>
    /\ tout = << >>
    /\ tpc = "input"

Init ==
    /\ MainInit
    /\ \E a \in InitialCounts.A, b \in InitialCounts.B :
          /\ count = [t \in Threads |-> IF t = "A" THEN a ELSE b]
          /\ msgs = [t \in Threads |-> InitialMessages(IF t = "A" THEN a ELSE b)]
    /\ TrimIdle
    /\ GatewayIdle
    /\ OrchIdle
    /\ PipeIdle

(***************************************************************************)
(* MessageHandler._get_thread_lock                                         *)
(***************************************************************************)
\* one registry key for every thread (the mutant of LockKey)
SharedKey(thread_id) == "A"

\* the registry key of a thread id: self._locks[thread_id]
LockKey(thread_id) == thread_id

\* a new Lock object on every call (the mutant of RegistryAfterLookup)
RegistryAlwaysNew(registry, key, fresh) == [registry EXCEPT ![key] = fresh]

\* lines 69-70: a Lock object is created only when the key has no entry
RegistryAfterLookup(registry, key, fresh) ==
    IF registry[key] = 0 THEN [registry EXCEPT ![key] = fresh] ELSE registry

\* A call arrives and enters `async with self._lock_lock` (line 68).  Calls
\* are numbered in the order they arrive.
EnterRegistry(c, tid) ==
    /\ pc[c] = "idle"
    /\ \A d \in Calls : d < c => pc[d] # "idle"
    /\ lockLock = 0
    /\ lockLock' = c
    /\ pc' = [pc EXCEPT ![c] = "registry"]
    /\ cthread' = [cthread EXCEPT ![c] = tid]
    /\ UNCHANGED <<cmodel, lockOf, seen, ctx, sent, result, brought>>
    /\ UNCHANGED <<locks, created, lk>>
    /\ UNCHANGED <<dbVars, bgVars, sideVars>>

\* Lines 69-71, and the release of self._lock_lock.
LookupOrCreate(c) ==
    /\ pc[c] = "registry"
    /\ lockLock = c
    /\ LET key == LockKey(cthread[c])
           after == RegistryAfterLookup(locks, key, created + 1)
       IN /\ locks' = after
          /\ created' = IF after[key] = created + 1 THEN created + 1 ELSE created
          /\ lockOf' = [lockOf EXCEPT ![c] = after[key]]
    /\ lockLock' = 0
    /\ pc' = [pc EXCEPT ![c] = "acquire"]
    /\ UNCHANGED <<cthread, cmodel, seen, ctx, sent, result, brought>>
    /\ UNCHANGED lk
    /\ UNCHANGED <<dbVars, bgVars, sideVars>>

(***************************************************************************)
(* MessageHandler.process_user_message                                     *)
(***************************************************************************)
\* the thread lock is taken without waiting for its holder (the mutant of
\* AcquireThreadLock)
AcquireWithoutWaiting(c) ==
    /\ pc[c] = "acquire"
    /\ lk' = [lk EXCEPT ![lockOf[c]].locked = TRUE]
    /\ pc' = [pc EXCEPT ![c] = "locked"]
    /\ UNCHANGED <<cthread, cmodel, lockOf, seen, ctx, sent, result, brought>>
    /\ UNCHANGED <<lockLock, locks, created>>
    /\ UNCHANGED <<dbVars, bgVars, sideVars>>

\* `async with lock` (line 106): the lock is taken at once when it is free
\* and nobody waits, otherwise the call queues behind the waiters.
AcquireThreadLock(c) ==
    /\ pc[c] = "acquire"
    /\ LET l == lockOf[c]
       IN IF ~lk[l].locked /\ lk[l].waiters = << >>
          THEN /\ lk' = [lk EXCEPT ![l].locked = TRUE]
               /\ pc' = [pc EXCEPT ![c] = "locked"]
          ELSE /\ lk' = [lk EXCEPT ![l].waiters = Append(@, c)]
               /\ pc' = [pc EXCEPT ![c] = "blocked"]
    /\ UNCHANGED <<cthread, cmodel, lockOf, seen, ctx, sent, result, brought>>
    /\ UNCHANGED <<lockLock, locks, created>>
    /\ UNCHANGED <<dbVars, bgVars, sideVars>>

\* A waiter woken by a release resumes and takes the lock.
ResumeWithLock(c) ==
    /\ pc[c] = "blocked"
    /\ LET l == lockOf[c]
       IN /\ lk[l].waiters # << >>
          /\ Head(lk[l].waiters) = c
          /\ lk[l].woken
          /\ lk' = [lk EXCEPT ![l] = [locked |-> TRUE,
                                      waiters |-> Tail(lk[l].waiters),
                                      woken |-> FALSE]]
    /\ pc' = [pc EXCEPT ![c] = "locked"]
    /\ UNCHANGED <<cthread, cmodel, lockOf, seen, ctx, sent, result, brought>>
    /\ UNCHANGED <<lockLock, locks, created>>
    /\ UNCHANGED <<dbVars, bgVars, sideVars>>

\* the call raises and its lock stays taken, as with lock.acquire() in place
\* of `async with lock` (the mutant of Fail)
FailHoldingLock(c, error) ==
    /\ pc' = [pc EXCEPT ![c] = "failed"]
    /\ result' = [result EXCEPT ![c] = error]
    /\ UNCHANGED lk

\* The call raises inside `async with lock`: the lock is released.
Fail(c, error) ==
    /\ pc' = [pc EXCEPT ![c] = "failed"]
    /\ result' = [result EXCEPT ![c] = error]
    /\ lk' = Released(lockOf[c])

\* Lines 113-126: UUID(thread_id), then the Thread row is loaded.
LoadThread(c) ==
    /\ pc[c] = "locked"
    /\ \/ /\ ~ValidUUID(cthread[c])
          /\ Fail(c, "invalid_thread_id")
          /\ UNCHANGED seen
       \/ /\ ValidUUID(cthread[c])
          /\ cthread[c] \notin Threads
          /\ Fail(c, "thread_not_found")
          /\ UNCHANGED seen
       \/ /\ cthread[c] \in Threads
          /\ seen' = [seen EXCEPT ![c] = count[cthread[c]]]
          /\ pc' = [pc EXCEPT ![c] = "store_user"]
          /\ UNCHANGED <<result, lk>>
    /\ UNCHANGED <<cthread, cmodel, lockOf, ctx, sent, brought>>
    /\ UNCHANGED <<lockLock, locks, created>>
    /\ UNCHANGED <<dbVars, bgVars, sideVars>>

\* the user message is stored and the call goes on to assemble the context:
\* the trigger check of lines 152-154 is left out (the mutant of
\* StoreUserMessage)
StoreUserMessageSkippingTrigger(c) ==
    /\ pc[c] = "store_user"
    /\ LET th == cthread[c]
       IN /\ msgs' = [msgs EXCEPT ![th] =
                         Append(@, Message("user", UserText, Len(@) + 1,
                                           LastStamp(th) + 1))]
          /\ count' = [count EXCEPT ![th] = seen[c] + 1]
          /\ brought' = [brought EXCEPT ![c] = Append(@, seen[c] + 1)]
    /\ pc' = [pc EXCEPT ![c] = "assemble"]
    /\ UNCHANGED <<cthread, cmodel, lockOf, seen, ctx, sent, result>>
    /\ UNCHANGED <<lockVars, summaries, bgVars, sideVars>>

\* the message is added to the session and the commit of line 144 is left
\* out, so that nothing of it is stored (the mutant of UserMessageStored)
UserMessageAddedOnly(c) ==
    /\ pc[c] = "store_user"
    /\ brought' = [brought EXCEPT ![c] = Append(@, seen[c] + 1)]
    /\ pc' = [pc EXCEPT ![c] = "trigger"]
    /\ UNCHANGED <<cthread, cmodel, lockOf, seen, ctx, sent, result>>
    /\ UNCHANGED <<lockVars, dbVars, sideVars>>

\* Lines 128-144 for the call and the database.
UserMessageStored(c) ==
    /\ pc[c] = "store_user"
    /\ LET th == cthread[c]
       IN /\ msgs' = [msgs EXCEPT ![th] =
                         Append(@, Message("user", UserText, Len(@) + 1,
                                           LastStamp(th) + 1))]
          /\ count' = [count EXCEPT ![th] = seen[c] + 1]
          /\ brought' = [brought EXCEPT ![c] = Append(@, seen[c] + 1)]
    /\ pc' = [pc EXCEPT ![c] = "trigger"]
    /\ UNCHANGED <<cthread, cmodel, lockOf, seen, ctx, sent, result>>
    /\ UNCHANGED <<lockVars, summaries, sideVars>>

\* Lines 128-144: the user message is added, the loaded message_count is
\* incremented, and both are committed.
StoreUserMessage(c) ==
    /\ UserMessageStored(c)
    /\ UNCHANGED bgVars

\* the summary task is awaited by the call that created it (the mutant of
\* CheckTrigger)
CheckTriggerAwaiting(c) ==
    /\ pc[c] = "trigger"
    /\ IF should_trigger(count[cthread[c]]) /\ bg[c] = "none"
       THEN /\ bg' = [bg EXCEPT ![c] = "read"]
            /\ UNCHANGED pc
       ELSE /\ should_trigger(count[cthread[c]]) => bg[c] = "done"
            /\ pc' = [pc EXCEPT ![c] = "assemble"]
            /\ UNCHANGED bg
    /\ UNCHANGED <<cthread, cmodel, lockOf, seen, ctx, sent, result, brought>>
    /\ UNCHANGED <<lockVars, dbVars, bgCovered, bgAt, bgInner, bgTask, sideVars>>

\* Lines 152-154: should_trigger reads message_count; when it is due the
\* summary task is created and the call goes on without awaiting it.
CheckTrigger(c) ==
    /\ pc[c] = "trigger"
    /\ bg' = [bg EXCEPT ![c] =
                 IF should_trigger(count[cthread[c]]) THEN "read" ELSE @]
    /\ pc' = [pc EXCEPT ![c] = "assemble"]
    /\ UNCHANGED <<cthread, cmodel, lockOf, seen, ctx, sent, result, brought>>
    /\ UNCHANGED <<lockVars, dbVars, bgCovered, bgAt, bgInner, bgTask, sideVars>>

\* Line 157: _assemble_context.
AssembleContext(c) ==
    /\ pc[c] = "assemble"
    /\ LET th == cthread[c]
       IN \E latest \in IF summaries[th] = << >> THEN {0}
                        ELSE LatestSummaries(summaries[th]) :
             ctx' = [ctx EXCEPT ![c] = assemble_context(msgs[th], summaries[th], latest)]
    /\ pc' = [pc EXCEPT ![c] = "generate"]
    /\ UNCHANGED <<cthread, cmodel, lockOf, seen, sent, result, brought>>
    /\ UNCHANGED <<lockVars, dbVars, bgVars, sideVars>>

\* Lines 159-171: the context is trimmed and the response generated; an
\* invalid model raises before the gateway is called, the gateway may fail.
\* requested_model is first read here, so its value is drawn here.
GenerateResponse(c, rm) ==
    /\ pc[c] = "generate"
    /\ cmodel' = [cmodel EXCEPT ![c] = rm]
    /\ LET th == cthread[c]
           trim_model == IF Truthy(rm) THEN rm ELSE CurrentModel(th)
           effective == determine_effective_model(CurrentModel(th), rm)
       IN /\ sent' = [sent EXCEPT ![c] =
                         trim_context_to_fit(ctx[c], trim_model, MaxContextTokens,
                                             TRUE, TRUE)]
          /\ \/ /\ effective = "invalid"
                /\ Fail(c, "invalid_model")
             \/ /\ effective # "invalid"
                /\ Fail(c, "gateway_error")
             \/ /\ effective # "invalid"
                /\ pc' = [pc EXCEPT ![c] = "store_asst"]
                /\ UNCHANGED <<result, lk>>
    /\ UNCHANGED <<cthread, lockOf, seen, ctx, brought>>
    /\ UNCHANGED <<lockLock, locks, created>>
    /\ UNCHANGED <<dbVars, bgVars, sideVars>>

\* Lines 186-227 for the call, the lock and the database.
AssistantMessageStored(c) ==
    /\ pc[c] = "store_asst"
    /\ LET th == cthread[c]
       IN /\ msgs' = [msgs EXCEPT ![th] =
                         Append(@, Message("assistant", AssistantText, Len(@) + 1,
                                           LastStamp(th) + 1))]
          /\ count' = [count EXCEPT ![th] = @ + 1]
          /\ brought' = [brought EXCEPT ![c] = Append(@, count[th] + 1)]
    /\ pc' = [pc EXCEPT ![c] = "done"]
    /\ result' = [result EXCEPT ![c] = "response"]
    /\ lk' = Released(lockOf[c])
    /\ UNCHANGED <<cthread, cmodel, lockOf, seen, ctx, sent>>
    /\ UNCHANGED <<lockLock, locks, created>>
    /\ UNCHANGED <<summaries, sideVars>>

\* Lines 186-227: the Thread row is loaded again, the assistant message is
\* added, message_count incremented, both committed; the call returns and
\* leaves `async with lock`.
StoreAssistantMessage(c) ==
    /\ AssistantMessageStored(c)
    /\ UNCHANGED bgVars

(***************************************************************************)
(* The background summary task: _generate_summary_async around             *)
(* SummarizationEngine.generate_summary.  The request path is modelled     *)
(* with storage available; the task's commit may fail.                     *)
(***************************************************************************)
Summary(at, covered, by) == [at |-> at, covered |-> covered, by |-> by]

BgEnds(c, inner) ==
    /\ bg' = [bg EXCEPT ![c] = "done"]
    /\ bgInner' = [bgInner EXCEPT ![c] = inner]
    /\ bgTask' = [bgTask EXCEPT ![c] = generate_summary_async(inner)]

\* the test of lines 102-104 is left out: the prompt of an empty
\* conversation goes to the LLM (the mutant of SummaryRead)
SummaryReadUnchecked(c) ==
    /\ bg[c] = "read"
    /\ LET th == cthread[c]
       IN /\ bgCovered' = [bgCovered EXCEPT ![c] = LastMessageIds(msgs[th])]
          /\ bgAt' = [bgAt EXCEPT ![c] = LastStamp(th)]
          /\ bg' = [bg EXCEPT ![c] = "llm"]
          /\ UNCHANGED <<bgInner, bgTask>>
    /\ UNCHANGED <<callVars, lockVars, dbVars, sideVars>>

\* Lines 92-110 for the bg task: the transaction starts at `at` (the stamp of
\* the newest message created by then; it is the created_at the Summary row
\* will get from func.now()) and the last `threshold` committed messages are
\* read.
SummaryReadAt(c, at) ==
    /\ bg[c] = "read"
    /\ LET th == cthread[c]
       IN IF msgs[th] = << >>
          THEN /\ BgEnds(c, "none_no_messages")
               /\ UNCHANGED <<bgCovered, bgAt>>
          ELSE /\ bgCovered' = [bgCovered EXCEPT ![c] = LastMessageIds(msgs[th])]
               /\ bgAt' = [bgAt EXCEPT ![c] = at]
               /\ bg' = [bg EXCEPT ![c] = "llm"]
               /\ UNCHANGED <<bgInner, bgTask>>

\* Lines 92-110: the transaction starts and the last `threshold` messages
\* are read; Summary.created_at defaults to now(), the time the transaction
\* started, which on the thread's clock is the stamp of its latest message.
SummaryRead(c) ==
    /\ SummaryReadAt(c, LastStamp(cthread[c]))
    /\ UNCHANGED <<callVars, lockVars, dbVars, sideVars>>

\* Lines 134-144 beside lines 92-100 of a summary task of the thread: the
\* message has its created_at (line 136) and `await session.commit()` is
\* under way when the task's transaction starts and reads the messages
\* committed so far.
StoreUserMessageAsSummaryReads(c, t) ==
    /\ cthread[t] = cthread[c]
    /\ UserMessageStored(c)
    /\ SummaryReadAt(t, LastStamp(cthread[c]) + 1)

\* Lines 196-210 beside lines 92-100 of a summary task of the thread: the
\* message has its created_at (line 204) and `await session.commit()` is
\* under way when the task's transaction starts and reads the messages
\* committed so far.
StoreAssistantMessageAsSummaryReads(c, t) ==
    /\ cthread[t] = cthread[c]
    /\ AssistantMessageStored(c)
    /\ SummaryReadAt(t, LastStamp(cthread[c]) + 1)

\* the summary row is written although the LLM call failed (the mutant of
\* SummaryLLMFails)
SummaryLLMFailsAfterWrite(c) ==
    /\ summaries' = [summaries EXCEPT ![cthread[c]] =
                        Append(@, Summary(bgAt[c], bgCovered[c], c))]
    /\ BgEnds(c, "none_llm_failed")

\* Lines 125-131: the LLM call raised; the error is logged, None returned.
SummaryLLMFails(c) ==
    /\ BgEnds(c, "none_llm_failed")
    /\ UNCHANGED summaries

\* Lines 115-131: the chat_completion call of the summary.
SummaryLLMCall(c) ==
    /\ bg[c] = "llm"
    /\ \/ /\ bg' = [bg EXCEPT ![c] = "store"]
          /\ UNCHANGED <<bgInner, bgTask, summaries>>
       \/ SummaryLLMFails(c)
    /\ UNCHANGED <<callVars, lockVars, count, msgs, bgCovered, bgAt, sideVars>>

\* Lines 133-166: the Summary row is added and committed; a failing commit
\* raises out of generate_summary.
SummaryStore(c) ==
    /\ bg[c] = "store"
    /\ \/ /\ summaries' = [summaries EXCEPT ![cthread[c]] =
                              Append(@, Summary(bgAt[c], bgCovered[c], c))]
          /\ BgEnds(c, "summary")
       \/ /\ BgEnds(c, "raised")
          /\ UNCHANGED summaries
    /\ UNCHANGED <<callVars, lockVars, count, msgs, bgCovered, bgAt, sideVars>>

(***************************************************************************)
(* Spec: the message path.                                                 *)
(***************************************************************************)
CallStep(c) ==
    \/ LookupOrCreate(c)
    \/ AcquireThreadLock(c)
    \/ ResumeWithLock(c)
    \/ LoadThread(c)
    \/ StoreUserMessage(c)
    \/ CheckTrigger(c)
    \/ AssembleContext(c)
    \/ \E rm \in RequestedModels : GenerateResponse(c, rm)
    \/ StoreAssistantMessage(c)
    \/ \E t \in Calls : StoreUserMessageAsSummaryReads(c, t)
    \/ \E t \in Calls : StoreAssistantMessageAsSummaryReads(c, t)

SummaryStep(c) ==
    \/ SummaryRead(c)
    \/ SummaryLLMCall(c)
    \/ SummaryStore(c)

Next ==
    \E c \in Calls :
        \/ \E tid \in ThreadIds : EnterRegistry(c, tid)
        \/ CallStep(c)
        \/ SummaryStep(c)

Spec == Init /\ [][Next]_vars

\* the event loop runs a coroutine that can run as long as there is one:
\* the awaits on the database and on the gateway end (the gateway's by its
\* timeout), and a waiter of a lock can run once the lock has woken it
FairSpec == Spec /\ WF_vars(Next)

(***************************************************************************)
(* LateSummarySpec: the message path, started from a state of a longer     *)
(* run.  Thread "A" held 8 messages and the lone user message of a failed  *)
(* request; an earlier request (call 0) brought message_count to 10,       *)
(* created its summary task and returned; four more requests were served   *)
(* since.  The summary task of call 0 is detached and has not yet got the  *)
(* result of its first query.                                              *)
(***************************************************************************)
EarlierCall == 0

LateMessages ==
    [i \in 1..19 |->
        LET user == IF i <= 9 THEN i % 2 = 1 ELSE i % 2 = 0
        IN Message(IF user THEN "user" ELSE "assistant",
                   IF user THEN UserText ELSE AssistantText, i, i)]

LateSummaryInit ==
    LET all == {EarlierCall} \cup Calls
        earlier_ctx == assemble_context(SubSeq(LateMessages, 1, 10), << >>, 0)
    IN /\ pc = [c \in all |-> IF c = EarlierCall THEN "done" ELSE "idle"]
       /\ cthread = [c \in all |-> "A"]
       /\ cmodel = [c \in all |-> NoModel]
       /\ lockOf = [c \in all |-> IF c = EarlierCall THEN 1 ELSE 0]
       /\ seen = [c \in all |-> IF c = EarlierCall THEN 9 ELSE 0]
       /\ ctx = [c \in all |-> IF c = EarlierCall THEN earlier_ctx ELSE << >>]
       /\ sent = [c \in all |->
                    IF c = EarlierCall
                    THEN trim_context_to_fit(earlier_ctx, CurrentModel("A"),
                                             MaxContextTokens, TRUE, TRUE)
                    ELSE << >>]
       /\ result = [c \in all |-> IF c = EarlierCall THEN "response" ELSE "pending"]
       /\ brought = [c \in all |-> IF c = EarlierCall THEN <<10, 11>> ELSE << >>]
       /\ lockLock = 0
       /\ locks = [t \in ThreadIds |-> IF t = "A" THEN 1 ELSE 0]
       /\ created = 1
       /\ lk = [l \in 1..(NumCalls + 1) |-> FreshLock]
       /\ count = [t \in Threads |-> IF t = "A" THEN 19 ELSE 0]
       /\ msgs = [t \in Threads |-> IF t = "A" THEN LateMessages ELSE << >>]
       /\ summaries = [t \in Threads |-> << >>]
       /\ bg = [c \in all |-> IF c = EarlierCall THEN "read" ELSE "none"]
       /\ bgCovered = [c \in all |-> {}]
       /\ bgAt = [c \in all |-> 0]
       /\ bgInner = [c \in all |-> "pending"]
       /\ bgTask = [c \in all |-> "pending"]
       /\ TrimIdle
       /\ GatewayIdle
       /\ OrchIdle
       /\ PipeIdle

LateSummaryNext ==
    \/ Next
    \/ SummaryStep(EarlierCall)
    \/ \E c \in Calls : StoreUserMessageAsSummaryReads(c, EarlierCall)
    \/ \E c \in Calls : StoreAssistantMessageAsSummaryReads(c, EarlierCall)

LateSummarySpec == LateSummaryInit /\ [][LateSummaryNext]_vars

(***************************************************************************)
(* LongTailSpec: the message path, started from a state of a longer run.   *)
(* Thread "A" holds 29 messages, the last one the lone user message of a   *)
(* failed request.  The summary task created at message_count 10 stored    *)
(* its summary of messages 1..10; the task created at message_count 20     *)
(* ended with none_llm_failed and stored nothing.                          *)
(***************************************************************************)
LongTailInit ==
    /\ pc = [c \in Calls |-> "idle"]
    /\ cthread = [c \in Calls |-> "A"]
    /\ cmodel = [c \in Calls |-> NoModel]
    /\ lockOf = [c \in Calls |-> 0]
    /\ seen = [c \in Calls |-> 0]
    /\ ctx = [c \in Calls |-> << >>]
    /\ sent = [c \in Calls |-> << >>]
    /\ result = [c \in Calls |-> "pending"]
    /\ brought = [c \in Calls |-> << >>]
    /\ lockLock = 0
    /\ locks = [t \in ThreadIds |-> 0]
    /\ created = 0
    /\ lk = [l \in Calls |-> FreshLock]
    /\ count = [t \in Threads |-> IF t = "A" THEN 29 ELSE 0]
    /\ msgs = [t \in Threads |-> InitialMessages(IF t = "A" THEN 29 ELSE 0)]
    /\ summaries = [t \in Threads |->
                       IF t = "A"
                       THEN <<Summary(10, 1..SummarizationThreshold, EarlierCall)>>
                       ELSE << >>]
    /\ bg = [c \in Calls |-> "none"]
    /\ bgCovered = [c \in Calls |-> {}]
    /\ bgAt = [c \in Calls |-> 0]
    /\ bgInner = [c \in Calls |-> "pending"]
    /\ bgTask = [c \in Calls |-> "pending"]
    /\ TrimIdle
    /\ GatewayIdle
    /\ OrchIdle
    /\ PipeIdle

LongTailSpec == LongTailInit /\ [][Next]_vars

(***************************************************************************)
(* SummarySpec: generate_summary called for stored threads, as the summary *)
(* task of each call does, with no request in progress.  Thread "A" holds  *)
(* no message, a few, or more than the threshold; thread "B" holds none.   *)
(***************************************************************************)
SummaryInit ==
    /\ pc = [c \in Calls |-> "idle"]
    /\ cthread \in [Calls -> Threads]
    /\ cmodel = [c \in Calls |-> NoModel]
    /\ lockOf = [c \in Calls |-> 0]
    /\ seen = [c \in Calls |-> 0]
    /\ ctx = [c \in Calls |-> << >>]
    /\ sent = [c \in Calls |-> << >>]
    /\ result = [c \in Calls |-> "pending"]
    /\ brought = [c \in Calls |-> << >>]
    /\ lockLock = 0
    /\ locks = [t \in ThreadIds |-> 0]
    /\ created = 0
    /\ lk = [l \in Calls |-> FreshLock]
    /\ \E a \in {0, 3, 12} :
          /\ count = [t \in Threads |-> IF t = "A" THEN a ELSE 0]
          /\ msgs = [t \in Threads |-> InitialMessages(IF t = "A" THEN a ELSE 0)]
    /\ summaries = [t \in Threads |-> << >>]
    /\ bg = [c \in Calls |-> "read"]
    /\ bgCovered = [c \in Calls |-> {}]
    /\ bgAt = [c \in Calls |-> 0]
    /\ bgInner = [c \in Calls |-> "pending"]
    /\ bgTask = [c \in Calls |-> "pending"]
    /\ TrimIdle
    /\ GatewayIdle
    /\ OrchIdle
    /\ PipeIdle

SummaryNext == \E c \in Calls : SummaryStep(c)

SummarySpec == SummaryInit /\ [][SummaryNext]_vars

(***************************************************************************)
(* TrimSpec: trim_context_to_fit on bounded inputs.                        *)
(***************************************************************************)
TrimTexts ==
    [system |-> {Text("none", 5, 2), Text("none", 36, 12)},
     user |-> {Text("none", 0, 0), Text("none", 16, 3), Text("summary", 12, 5)},
     assistant |-> {Text("none", 36, 12), Text("summary", 12, 5), Text("ctx", 40, 9)}]

TrimMessages ==
    UNION {{[role |-> r, content |-> t] : t \in TrimTexts[r]} :
           r \in {"system", "user", "assistant"}}

TrimBudgets == {0, 7, 9, 15, 22, 40}

TrimInit ==
    /\ MainInit
    /\ count = [t \in Threads |-> 0]
    /\ msgs = [t \in Threads |-> << >>]
    /\ tin \in UNION {[1..n -> TrimMessages] : n \in 0..MaxTrimLen}
    /\ tmodel \in {ExactModel, ApproxModel}
    /\ tmax \in TrimBudgets
    /\ tflags \in {<<TRUE, TRUE>>, <<FALSE, FALSE>>}
    /\ tout = << >>
    /\ tpc = "input"
    /\ GatewayIdle
    /\ OrchIdle
    /\ PipeIdle

TrimApply ==
    /\ tpc = "input"
    /\ tout' = trim_context_to_fit(tin, tmodel, tmax, tflags[1], tflags[2])
    /\ tpc' = "trimmed"
    /\ UNCHANGED <<tin, tmodel, tmax, tflags>>
    /\ UNCHANGED nonTrimVars

\* the list a trim returned is trimmed again with the same model, budget
\* and flags
TrimAgain ==
    /\ tpc = "trimmed"
    /\ tout' = trim_context_to_fit(tout, tmodel, tmax, tflags[1], tflags[2])
    /\ tpc' = "retrimmed"
    /\ UNCHANGED <<tin, tmodel, tmax, tflags>>
    /\ UNCHANGED nonTrimVars

TrimNext == TrimApply \/ TrimAgain

TrimSpec == TrimInit /\ [][TrimNext]_vars

(***************************************************************************)
(* GatewaySpec: one OpenRouterAdapter.chat_completion call.                *)
(***************************************************************************)
StoredNothing ==
    /\ count = [t \in Threads |-> 0]
    /\ msgs = [t \in Threads |-> << >>]

GatewayInit ==
    /\ MainInit
    /\ StoredNothing
    /\ TrimIdle
    /\ gpc = "idle"
    /\ gmodel \in ValidModels
    /\ gmaxtok \in {0, 500}
    /\ gpayload = NoPayload
    /\ gtries = 0
    /\ glog = << >>
    /\ gout = [result |-> NoResult, exc |-> NoExc]
    /\ OrchIdle
    /\ PipeIdle

\* chat_completion enters _chat_completion_with_retry (lines 100-102)
GatewayCall ==
    /\ gpc = "idle"
    /\ gpc' = "attempting"
    /\ UNCHANGED <<gmodel, gmaxtok, gpayload, gtries, glog, gout>>
    /\ UNCHANGED nonGwVars

\* One attempt and the decision tenacity takes on its outcome: a return
\* ends the call; an exception the retry predicate rejects, or one raised
\* by the last allowed attempt, is raised to the caller (reraise=True);
\* otherwise the call sleeps before the next attempt.
GatewayAttempt(up) ==
    /\ gpc = "attempting"
    /\ gpayload' = Payload(gmodel, gmaxtok)
    /\ gtries' = gtries + 1
    /\ glog' = Append(glog, up)
    /\ LET r == attempt_once(gmodel, up)
       IN IF r.ok
          THEN /\ gpc' = "returned"
               /\ gout' = [result |-> r.result, exc |-> NoExc]
          ELSE IF retry_if_timeout(r.exc) /\ ~stop_after_attempt(gtries + 1)
          THEN /\ gpc' = "waiting"
               /\ UNCHANGED gout
          ELSE /\ gpc' = "raised"
               /\ gout' = [result |-> NoResult, exc |-> r.exc]
    /\ UNCHANGED <<gmodel, gmaxtok>>
    /\ UNCHANGED nonGwVars

\* the wait_exponential sleep ends and the next attempt starts
GatewayBackoff ==
    /\ gpc = "waiting"
    /\ gpc' = "attempting"
    /\ UNCHANGED <<gmodel, gmaxtok, gpayload, gtries, glog, gout>>
    /\ UNCHANGED nonGwVars

GatewayNext ==
    \/ GatewayCall
    \/ \E up \in UpstreamBehaviours : GatewayAttempt(up)
    \/ GatewayBackoff

GatewaySpec == GatewayInit /\ [][GatewayNext]_vars

(***************************************************************************)
(* OrchSpec: one LLMOrchestrator.generate_response call, with the          *)
(* chat_completion call it makes.                                          *)
(***************************************************************************)
ThreadModels == ValidModels \cup {"legacy/model"}
OrchRequestedModels == {NoModel, "", ExactModel, ApproxModel, "bogus/model"}

OrchInit ==
    /\ MainInit
    /\ StoredNothing
    /\ TrimIdle
    /\ GatewayIdle
    /\ opc = "start"
    /\ othread \in ThreadModels
    /\ oreq \in OrchRequestedModels
    /\ oout = [result |-> NoResult, exc |-> NoExc]
    /\ PipeIdle

\* Lines 58-78: the effective model is determined; a ValueError leaves
\* generate_response, otherwise adapter.chat_completion is called with it.
OrchSelect ==
    /\ opc = "start"
    /\ LET effective_model == determine_effective_model(othread, oreq)
       IN IF effective_model = "invalid"
          THEN /\ opc' = "raised"
               /\ oout' = [result |-> NoResult,
                           exc |-> invalid_model_error(othread, oreq)]
               /\ UNCHANGED gwVars
          ELSE /\ opc' = "calling"
               /\ gpc' = "attempting"
               /\ gmodel' = effective_model
               /\ UNCHANGED <<gmaxtok, gpayload, gtries, glog, gout, oout>>
    /\ UNCHANGED <<othread, oreq>>
    /\ UNCHANGED <<mainVars, trimVars, pipeVars, fnVars>>

\* Lines 73-93: chat_completion has ended; its exception propagates, its
\* result is returned with the effective model.
OrchFinish ==
    /\ opc = "calling"
    /\ gpc \in {"returned", "raised"}
    /\ IF gpc = "returned"
       THEN /\ opc' = "returned"
            /\ oout' = [result |-> Result(gout.result.content, gmodel,
                                          gout.result.tokens,
                                          gout.result.finish_reason),
                        exc |-> NoExc]
       ELSE /\ opc' = "raised"
            /\ oout' = [result |-> NoResult, exc |-> gout.exc]
    /\ UNCHANGED <<othread, oreq>>
    /\ UNCHANGED <<mainVars, trimVars, gwVars, pipeVars, fnVars>>

OrchNext ==
    \/ OrchSelect
    \/ \E up \in UpstreamBehaviours : GatewayAttempt(up)
    \/ GatewayBackoff
    \/ OrchFinish

OrchSpec == OrchInit /\ [][OrchNext]_vars

(***************************************************************************)
(* PipeSpec: one AgentCollaborationService.collaborate call, without a     *)
(* usage tracker.  ClassifySpec: classify_complexity on bounded inputs.    *)
(***************************************************************************)
GatewayErrors ==
    {Exc("httpx.TimeoutException", "timeout", 0, "none", "none"),
     Exc("OpenRouterRateLimitError", "Rate limit exceeded. Retry after", 0,
         "none", "30")}

\* what one adapter.chat_completion call of a stage ends with: a reply with
\* one of the texts and a token count, or an exception
StageReplies(texts) ==
    {[ok |-> TRUE, content |-> t, tokens |-> k, exc |-> NoExc] :
        t \in texts, k \in {0, 120}}
    \cup {[ok |-> FALSE, content |-> NoText, tokens |-> 0, exc |-> e] :
             e \in GatewayErrors}

PlanTexts == {ReplyText("plan", 180, 180)}
DraftTexts == {ReplyText("draft", 60, 0), ReplyText("draft", 2400, 1300)}
FinalTexts == {ReplyText("final", 900, 400)}

PipeQueries ==
    {QueryText(11, 0, "none", "none"),
     QueryText(23, 0, "none", "lower"),
     QueryText(120, 0, "none", "lower"),
     QueryText(150, 3, "lower", "none")}

PipeContexts ==
    {NoContext,
     ContextText(TRUE, 0, "none", "none"),
     ContextText(TRUE, 80, "none", "none")}

OthersIdle ==
    /\ FnIdle
    /\ MainInit
    /\ StoredNothing
    /\ TrimIdle
    /\ GatewayIdle
    /\ OrchIdle

PipeInit ==
    /\ OthersIdle
    /\ ppc = "start"
    /\ pin \in {PipeArgs(q, c, i, f) :
                   q \in PipeQueries, c \in PipeContexts,
                   i \in BOOLEAN, f \in BOOLEAN}
    /\ pst = NoLocals
    /\ pcalls = << >>
    /\ pout = [result |-> NoPipeResult, exc |-> NoExc]
    /\ agents = DEFAULT_AGENTS

\* the exception is swallowed and what there is of the draft is returned (the
\* mutant of PipeRaises)
PipeDegrades(exc) ==
    /\ ppc' = "returned"
    /\ pout' = [result |-> [NoPipeResult EXCEPT !.final_response = pst.draft],
                exc |-> NoExc]

\* an exception leaves collaborate: no statement of it is inside a try
PipeRaises(exc) ==
    /\ ppc' = "raised"
    /\ pout' = [result |-> NoPipeResult, exc |-> exc]

\* Lines 319-321.
PipeClassify ==
    /\ ppc = "start"
    /\ LET complexity == classify_complexity(pin.query, pin.context)
       IN pst' = [pst EXCEPT
                     !.complexity = complexity,
                     !.use_reviewer = use_reviewer(complexity, pin.force_full_pipeline)]
    /\ ppc' = "planner_call"
    /\ UNCHANGED <<pin, pcalls, pout, agents>>
    /\ UNCHANGED nonPipeVars

\* Lines 340-356: the planner's config is read and its call issued.
PlannerCall ==
    /\ ppc = "planner_call"
    /\ LET planner_config == agents["planner"]
           planner_prompt == StagePrompt(pin.context, pin.query, NoText, NoSummary)
       IN /\ pst' = [pst EXCEPT !.planner_config = planner_config]
          /\ pcalls' = Append(pcalls, StageCall(planner_config, planner_prompt, "0.7", 500))
    /\ ppc' = "planner_wait"
    /\ UNCHANGED <<pin, pout, agents>>
    /\ UNCHANGED nonPipeVars

\* Lines 348-381: the planner's call ends.
PlannerReturn(reply) ==
    /\ ppc = "planner_wait"
    /\ IF reply.ok
       THEN /\ pst' = [pst EXCEPT
                          !.plan = reply.content,
                          !.planner_tokens = reply.tokens,
                          !.total_tokens = @ + reply.tokens,
                          !.process_steps =
                              Append(@, ProcessStep(1, "planner", pst.planner_config.model,
                                                    reply.content, reply.tokens, -1))]
            /\ ppc' = "writer_call"
            /\ UNCHANGED pout
       ELSE /\ PipeRaises(reply.exc)
            /\ UNCHANGED pst
    /\ pcalls' = Ended(pcalls, reply)
    /\ UNCHANGED <<pin, agents>>
    /\ UNCHANGED nonPipeVars

\* the writer's call is issued next to the planner's, as in a gather of the
\* two stages, before the plan is there (the mutant of WriterCall)
WriterCallBesidePlanner ==
    /\ ppc = "planner_wait"
    /\ LET writer_config == agents["writer"]
           writer_prompt == StagePrompt(pin.context, pin.query, pst.plan, NoSummary)
       IN /\ pst' = [pst EXCEPT !.writer_config = writer_config]
          /\ pcalls' = Append(pcalls, StageCall(writer_config, writer_prompt, "0.7", 1500))
    /\ ppc' = "writer_wait"
    /\ UNCHANGED <<pin, pout, agents>>
    /\ UNCHANGED nonPipeVars

\* Lines 386-405: the writer's config is read and its call issued; the
\* prompt embeds the plan.
WriterCall ==
    /\ ppc = "writer_call"
    /\ LET writer_config == agents["writer"]
           writer_prompt == StagePrompt(pin.context, pin.query, pst.plan, NoSummary)
       IN /\ pst' = [pst EXCEPT !.writer_config = writer_config]
          /\ pcalls' = Append(pcalls, StageCall(writer_config, writer_prompt, "0.7", 1500))
    /\ ppc' = "writer_wait"
    /\ UNCHANGED <<pin, pout, agents>>
    /\ UNCHANGED nonPipeVars

\* Lines 397-430: the writer's call ends.
WriterReturn(reply) ==
    /\ ppc = "writer_wait"
    /\ IF reply.ok
       THEN /\ pst' = [pst EXCEPT
                          !.draft = reply.content,
                          !.writer_tokens = reply.tokens,
                          !.total_tokens = @ + reply.tokens,
                          !.process_steps =
                              Append(@, ProcessStep(2, "writer", pst.writer_config.model,
                                                    OutputPreview(reply.content),
                                                    reply.tokens, -1))]
            /\ ppc' = "reviewer_stage"
            /\ UNCHANGED pout
       ELSE /\ PipeRaises(reply.exc)
            /\ UNCHANGED pst
    /\ pcalls' = Ended(pcalls, reply)
    /\ UNCHANGED <<pin, agents>>
    /\ UNCHANGED nonPipeVars

\* Lines 436-474: use_reviewer holds; the draft summary is extracted and the
\* reviewer's call issued.
ReviewerCall ==
    /\ ppc = "reviewer_stage"
    /\ pst.use_reviewer
    /\ LET reviewer_config == agents["reviewer"]
           draft_summary == extract_key_sections(pst.draft, 800)
           reviewer_prompt == StagePrompt(pin.context, pin.query, pst.plan, draft_summary)
       IN /\ pst' = [pst EXCEPT !.reviewer_config = reviewer_config,
                                !.draft_summary = draft_summary]
          /\ pcalls' = Append(pcalls, StageCall(reviewer_config, reviewer_prompt, "0.5", 1500))
    /\ ppc' = "reviewer_wait"
    /\ UNCHANGED <<pin, pout, agents>>
    /\ UNCHANGED nonPipeVars

\* the reviewer's tokens are recorded in its step and left out of the total
\* (the mutant of ReviewerReturn)
ReviewerReturnUncounted(reply) ==
    /\ ppc = "reviewer_wait"
    /\ IF reply.ok
       THEN /\ pst' = [pst EXCEPT
                          !.final_response = reply.content,
                          !.reviewer_tokens = reply.tokens,
                          !.process_steps =
                              Append(@, ProcessStep(3, "reviewer", pst.reviewer_config.model,
                                                    OutputPreview(reply.content),
                                                    reply.tokens, -1))]
            /\ ppc' = "build"
            /\ UNCHANGED pout
       ELSE /\ PipeRaises(reply.exc)
            /\ UNCHANGED pst
    /\ pcalls' = Ended(pcalls, reply)
    /\ UNCHANGED <<pin, agents>>
    /\ UNCHANGED nonPipeVars

\* Lines 466-499: the reviewer's call ends.
ReviewerReturn(reply) ==
    /\ ppc = "reviewer_wait"
    /\ IF reply.ok
       THEN /\ pst' = [pst EXCEPT
                          !.final_response = reply.content,
                          !.reviewer_tokens = reply.tokens,
                          !.total_tokens = @ + reply.tokens,
                          !.process_steps =
                              Append(@, ProcessStep(3, "reviewer", pst.reviewer_config.model,
                                                    OutputPreview(reply.content),
                                                    reply.tokens, -1))]
            /\ ppc' = "build"
            /\ UNCHANGED pout
       ELSE /\ PipeRaises(reply.exc)
            /\ UNCHANGED pst
    /\ pcalls' = Ended(pcalls, reply)
    /\ UNCHANGED <<pin, agents>>
    /\ UNCHANGED nonPipeVars

\* the draft becomes the final response and no step is recorded for the
\* reviewer (the mutant of ReviewerSkip)
ReviewerSkipUnrecorded ==
    /\ ppc = "reviewer_stage"
    /\ ~pst.use_reviewer
    /\ pst' = [pst EXCEPT
                  !.reviewer_config = agents["reviewer"],
                  !.final_response = pst.draft]
    /\ ppc' = "build"
    /\ UNCHANGED <<pin, pcalls, pout, agents>>
    /\ UNCHANGED nonPipeVars

\* Lines 436-439 and 500-518: use_reviewer does not hold; the draft is the
\* final response and a skipped step is recorded.
ReviewerSkip ==
    /\ ppc = "reviewer_stage"
    /\ ~pst.use_reviewer
    /\ pst' = [pst EXCEPT
                  !.reviewer_config = agents["reviewer"],
                  !.final_response = pst.draft,
                  !.process_steps =
                      Append(@, ProcessStep(3, "reviewer", "skipped",
                                            [id |-> "reviewer_skipped", len |-> 42,
                                             cut |-> FALSE],
                                            0, pst.complexity.score))]
    /\ ppc' = "build"
    /\ UNCHANGED <<pin, pcalls, pout, agents>>
    /\ UNCHANGED nonPipeVars

\* agents_used is built from self.agents as it is when the result is built,
\* not from the configs the stages read (the mutant of BuildResult)
BuildResultFromRegistry ==
    /\ ppc = "build"
    /\ LET agents_used ==
               <<AgentUsed("planner", agents["planner"].model, pst.planner_tokens, FALSE),
                 AgentUsed("writer", agents["writer"].model, pst.writer_tokens, FALSE),
                 IF pst.use_reviewer
                 THEN AgentUsed("reviewer", agents["reviewer"].model,
                                pst.reviewer_tokens, FALSE)
                 ELSE AgentUsed("reviewer", "skipped", 0, TRUE)>>
       IN pout' = [result |->
                      [final_response |-> pst.final_response,
                       total_tokens |-> pst.total_tokens,
                       agents_used |-> agents_used,
                       complexity |-> pst.complexity,
                       reviewer_used |-> pst.use_reviewer,
                       has_process |-> pin.include_process,
                       steps |-> IF pin.include_process THEN pst.process_steps
                                 ELSE << >>],
                   exc |-> NoExc]
    /\ ppc' = "returned"
    /\ UNCHANGED <<pin, pst, pcalls, agents>>
    /\ UNCHANGED nonPipeVars

\* Lines 523-611: the result is built and returned.
BuildResult ==
    /\ ppc = "build"
    /\ LET agents_used ==
               <<AgentUsed("planner", pst.planner_config.model, pst.planner_tokens, FALSE),
                 AgentUsed("writer", pst.writer_config.model, pst.writer_tokens, FALSE),
                 IF pst.use_reviewer
                 THEN AgentUsed("reviewer", pst.reviewer_config.model,
                                pst.reviewer_tokens, FALSE)
                 ELSE AgentUsed("reviewer", "skipped", 0, TRUE)>>
       IN pout' = [result |->
                      [final_response |-> pst.final_response,
                       total_tokens |-> pst.total_tokens,
                       agents_used |-> agents_used,
                       complexity |-> pst.complexity,
                       reviewer_used |-> pst.use_reviewer,
                       has_process |-> pin.include_process,
                       steps |-> IF pin.include_process THEN pst.process_steps
                                 ELSE << >>],
                   exc |-> NoExc]
    /\ ppc' = "returned"
    /\ UNCHANGED <<pin, pst, pcalls, agents>>
    /\ UNCHANGED nonPipeVars

PipeNext ==
    \/ PipeClassify
    \/ PlannerCall
    \/ \E reply \in StageReplies(PlanTexts) : PlannerReturn(reply)
    \/ WriterCall
    \/ \E reply \in StageReplies(DraftTexts) : WriterReturn(reply)
    \/ ReviewerCall
    \/ \E reply \in StageReplies(FinalTexts) : ReviewerReturn(reply)
    \/ ReviewerSkip
    \/ BuildResult

PipeSpec == PipeInit /\ [][PipeNext]_vars

\* collaborate is one coroutine: once started it runs on whenever the call it
\* awaits has ended, and the adapter ends every call (it returns or raises:
\* its attempts are bounded and each has a timeout)
FairPipeSpec == PipeSpec /\ WF_vars(PipeNext)

\* the texts classify_complexity is applied to in ClassifySpec: an empty
\* text holds no match and no keyword
ClassifyQueries ==
    {QueryText(0, 0, "none", "none")}
    \cup {QueryText(l, m, a, e) :
             l \in {20, 99, 100, 150}, m \in 0..3,
             a \in {"none", "lower", "upper"}, e \in {"none", "lower", "upper"}}

ClassifyContexts ==
    {NoContext, ContextText(TRUE, 0, "none", "none")}
    \cup {ContextText(TRUE, l, a, e) :
             l \in {10, 50, 51, 200},
             a \in {"none", "lower", "upper"}, e \in {"none", "lower", "upper"}}

ClassifyInit ==
    /\ OthersIdle
    /\ ppc = "start"
    /\ pin \in {PipeArgs(q, c, TRUE, FALSE) :
                   q \in ClassifyQueries, c \in ClassifyContexts}
    /\ pst = NoLocals
    /\ pcalls = << >>
    /\ pout = [result |-> NoPipeResult, exc |-> NoExc]
    /\ agents = DEFAULT_AGENTS

ClassifyNext == PipeClassify

ClassifySpec == ClassifyInit /\ [][ClassifyNext]_vars

(***************************************************************************)
(* ExtractSpec: extract_key_sections applied to bounded drafts.  The key   *)
(* parts are stripped lines of the draft, so they are never longer than    *)
(* the draft.                                                              *)
(***************************************************************************)
ExtractDrafts ==
    {ReplyText("draft", l, k) :
        l \in {0, 50, 99, 100, 200, 801, 2400},
        k \in {0, 40, 99, 100, 200, 801, 1300}}

ExtractMaxChars == {0, 1, 2, 3, 100, 101, 500, 800}

ExtractInit ==
    /\ MainInit
    /\ StoredNothing
    /\ TrimIdle
    /\ GatewayIdle
    /\ OrchIdle
    /\ ppc = "idle"
    /\ pin = PipeArgs(QueryText(0, 0, "none", "none"), NoContext, TRUE, FALSE)
    /\ pst = NoLocals
    /\ pcalls = << >>
    /\ pout = [result |-> NoPipeResult, exc |-> NoExc]
    /\ agents = DEFAULT_AGENTS
    /\ fpc = "input"
    /\ fargs \in {[draft |-> d, max_chars |-> m] :
                     d \in {x \in ExtractDrafts : x.keylen <= x.len},
                     m \in ExtractMaxChars}
    /\ fret = NoSummary

ExtractApply ==
    /\ fpc = "input"
    /\ fret' = extract_key_sections(fargs.draft, fargs.max_chars)
    /\ fpc' = "returned"
    /\ UNCHANGED fargs
    /\ UNCHANGED nonFnVars

ExtractNext == ExtractApply

ExtractSpec == ExtractInit /\ [][ExtractNext]_vars

(***************************************************************************)
(* UpdateSpec: update_agent_model and get_agent_config calls of other      *)
(* requests, interleaved with one collaborate call on the same service.    *)
(* update_agent_model and get_agent_config have no await: each runs as one *)
(* step of the event loop.  fargs is the list of the updates made.         *)
(***************************************************************************)
\* two models of the registry
UpdateModels == {ExactModel, "openai/gpt-3.5-turbo"}

UpdateInit ==
    /\ MainInit
    /\ StoredNothing
    /\ TrimIdle
    /\ GatewayIdle
    /\ OrchIdle
    /\ ppc = "start"
    /\ pin \in {PipeArgs(q, NoContext, TRUE, f) :
                   q \in {QueryText(11, 0, "none", "none")}, f \in BOOLEAN}
    /\ pst = NoLocals
    /\ pcalls = << >>
    /\ pout = [result |-> NoPipeResult, exc |-> NoExc]
    /\ agents = DEFAULT_AGENTS
    /\ fpc = "input"
    /\ fargs = << >>
    /\ fret = NoConfig

\* Lines 157-163.
UpdateAgentModel(role, model) ==
    /\ Len(fargs) < MaxUpdates
    /\ LET config == agents[role]
       IN agents' = [agents EXCEPT ![role] = updated_config(config, model)]
    /\ fargs' = Append(fargs, [role |-> role, model |-> model])
    /\ fpc' = "updated"
    /\ UNCHANGED fret
    /\ UNCHANGED <<ppc, pin, pst, pcalls, pout>>
    /\ UNCHANGED nonPipeFnVars

\* Line 147.
GetAgentConfig(role) ==
    /\ fret' = agents[role]
    /\ fpc' = "read"
    /\ UNCHANGED fargs
    /\ UNCHANGED nonFnVars

UpdateNext ==
    \/ \E role \in AgentRoles, model \in UpdateModels : UpdateAgentModel(role, model)
    \/ \E role \in AgentRoles : GetAgentConfig(role)
    \/ PipeNext

UpdateSpec == UpdateInit /\ [][UpdateNext]_vars

(***************************************************************************)
(* TriggerSpec: SummarizationEngine.should_trigger called for a thread id, *)
(* with thread "A" holding any number of messages up to MaxStored.         *)
(***************************************************************************)
MaxStored == 31

TriggerInit ==
    /\ MainInit
    /\ \E a \in 0..MaxStored :
          /\ count = [t \in Threads |-> IF t = "A" THEN a ELSE 0]
          /\ msgs = [t \in Threads |-> InitialMessages(IF t = "A" THEN a ELSE 0)]
    /\ TrimIdle
    /\ GatewayIdle
    /\ OrchIdle
    /\ ppc = "idle"
    /\ pin = PipeArgs(QueryText(0, 0, "none", "none"), NoContext, TRUE, FALSE)
    /\ pst = NoLocals
    /\ pcalls = << >>
    /\ pout = [result |-> NoPipeResult, exc |-> NoExc]
    /\ agents = DEFAULT_AGENTS
    /\ fpc = "input"
    /\ fargs \in {[thread_id |-> t] : t \in ThreadIds}
    /\ fret = FALSE

ShouldTriggerCall ==
    /\ fpc = "input"
    /\ fret' = should_trigger_call(fargs.thread_id, count)
    /\ fpc' = "returned"
    /\ UNCHANGED fargs
    /\ UNCHANGED nonFnVars

TriggerNext == ShouldTriggerCall

TriggerSpec == TriggerInit /\ [][TriggerNext]_vars

(***************************************************************************)
(* CountSpec: count_tokens and count_messages_tokens applied to bounded    *)
(* texts and message lists.                                                *)
(***************************************************************************)
CountTexts ==
    {Text("none", 0, 0), Text("none", 1, 1), Text("none", 3, 1),
     Text("none", 4, 1), Text("none", 5, 2), Text("none", 7, 2),
     Text("none", 8, 3), Text("none", 13, 4), Text("none", 240, 55)}

CountMessages ==
    {[role |-> "user", content |-> t] :
        t \in {Text("none", 0, 0), Text("none", 5, 2), Text("none", 16, 3)}}
    \cup {[role |-> "assistant", content |-> Text("none", 36, 12)]}

CountInit ==
    /\ MainInit
    /\ StoredNothing
    /\ TrimIdle
    /\ GatewayIdle
    /\ OrchIdle
    /\ ppc = "idle"
    /\ pin = PipeArgs(QueryText(0, 0, "none", "none"), NoContext, TRUE, FALSE)
    /\ pst = NoLocals
    /\ pcalls = << >>
    /\ pout = [result |-> NoPipeResult, exc |-> NoExc]
    /\ agents = DEFAULT_AGENTS
    /\ fpc = "input"
    /\ fargs \in {[text |-> t, messages |-> ms, model |-> m] :
                     t \in CountTexts,
                     ms \in UNION {[1..n -> CountMessages] : n \in 0..MaxTrimLen},
                     m \in {ExactModel, ApproxModel}}
    /\ fret = [of |-> "none", value |-> 0]

CountTokensCall ==
    /\ fpc = "input"
    /\ fret' = [of |-> "count_tokens",
                value |-> count_tokens(fargs.text, fargs.model)]
    /\ fpc' = "returned"
    /\ UNCHANGED fargs
    /\ UNCHANGED nonFnVars

CountMessagesTokensCall ==
    /\ fpc = "input"
    /\ fret' = [of |-> "count_messages_tokens",
                value |-> count_messages_tokens(fargs.messages, fargs.model)]
    /\ fpc' = "returned"
    /\ UNCHANGED fargs
    /\ UNCHANGED nonFnVars

CountNext == CountTokensCall \/ CountMessagesTokensCall

CountSpec == CountInit /\ [][CountNext]_vars

(***************************************************************************)
(* Properties.                                                             *)
(***************************************************************************)
SameThread(c, d) == c # d /\ cthread[c] = cthread[d]

\* C1: of the calls that took a thread id's lock through _get_thread_lock
\* and entered `async with lock`, at most one is inside the critical section
\* at any instant.
C1_MutualExclusion ==
    \A c, d \in Calls :
        SameThread(c, d) => ~(InCriticalSection(c) /\ InCriticalSection(d))

\* a call is inside the critical section while another call for the same
\* thread id waits for the lock
C1_Witness ==
    \E c, d \in Calls :
        SameThread(c, d) /\ InCriticalSection(c) /\ pc[d] = "blocked"

\* C2: a call that reaches `async with lock` while no call for its own
\* thread id holds or waits for that thread's lock enters the critical
\* section in that step, whatever calls for other thread ids hold or wait for.
C2_NoCrossThreadBlocking ==
    [][\A c \in Calls :
          ( /\ pc[c] = "acquire"
            /\ pc'[c] # "acquire"
            /\ \A d \in Calls :
                  SameThread(c, d) => ~(InCriticalSection(d) \/ pc[d] = "blocked") )
          => pc'[c] = "locked"]_vars

\* two calls for different thread ids are inside their critical sections at
\* the same instant
C2_Witness ==
    \E c, d \in Calls :
        /\ cthread[c] # cthread[d]
        /\ InCriticalSection(c)
        /\ InCriticalSection(d)

\* the steps of process_user_message that C3 names
ProcessingStep(c) ==
    /\ pc[c] \in {"store_user", "trigger", "assemble", "generate", "store_asst"}
    /\ pc'[c] # pc[c]

\* a call that has taken its first step and has neither finished nor aborted
MidProcessing(c) == pc[c] \in {"trigger", "assemble", "generate", "store_asst"}

\* C3: a call takes a step of its processing (store the user message, check
\* the trigger, assemble, call the gateway, store the assistant message)
\* only when no other call for the same thread is between its first step and
\* its end.
C3_NoInterleaving ==
    [][\A c, d \in Calls :
          (SameThread(c, d) /\ ProcessingStep(c)) => ~MidProcessing(d)]_vars

\* two calls for the same thread have both run their steps, one after the
\* other
C3_Witness ==
    \E c, d \in Calls :
        /\ SameThread(c, d)
        /\ pc[c] \in {"done", "failed"} /\ brought[c] # << >>
        /\ pc[d] \in {"done", "failed"} /\ brought[d] # << >>

\* C4 (as claimed): a call that has ended has started a summary task exactly
\* when it brought message_count to a positive multiple of the threshold,
\* by its user message or by its assistant message.
C4_TriggerAtEveryMultiple ==
    \A c \in Calls :
        pc[c] \in {"done", "failed"} =>
            ( (\E i \in 1..Len(brought[c]) :
                  brought[c][i] > 0 /\ brought[c][i] % SummarizationThreshold = 0)
              <=> bg[c] # "none" )

\* C5: the summary task never ends with an exception, and a call whose
\* summary generation failed ends with its response unless its own model
\* selection or gateway call failed.
C5_SummaryFailureSwallowed ==
    \A c \in Calls :
        /\ bgTask[c] # "raised"
        /\ (bgInner[c] \in {"raised", "none_llm_failed"} /\ pc[c] \in {"done", "failed"})
              => result[c] \in {"response", "invalid_model", "gateway_error"}
        /\ (bgInner[c] \in {"raised", "none_llm_failed"} /\ pc[c] = "done")
              => result[c] = "response"

\* a summary generation raised out of generate_summary and the call that
\* triggered it returned its response
C5_Witness ==
    \E c \in Calls : bgInner[c] = "raised" /\ result[c] = "response"

\* C6: while the summary task a call created is unfinished, the call is
\* never held back by it: at every point of its critical section the call
\* can take its next step.
C6_SummaryNotAwaited ==
    \A c \in Calls :
        (InCriticalSection(c) /\ bg[c] \in {"read", "llm", "store"})
            => ENABLED CallStep(c)

\* a call has returned its response while the summary task it created has
\* not even started
C6_Witness ==
    \E c \in Calls : result[c] = "response" /\ bg[c] = "read"

\* C7: the step in which the summary's LLM call raises leaves the Summary
\* rows as they were, no row of that generation exists, and
\* generate_summary returns None.
C7_FailedSummaryStoresNothing ==
    [][\A c \in Calls :
          (bg[c] = "llm" /\ bg'[c] = "done") =>
             /\ summaries' = summaries
             /\ \A t \in Threads : \A i \in 1..Len(summaries'[t]) :
                   summaries'[t][i].by # c
             /\ bgInner'[c] = "none_llm_failed"]_vars

\* a summary generation has ended on a failed LLM call
C7_Witness ==
    \E c \in Calls : bg[c] = "done" /\ bgInner[c] = "none_llm_failed"

\* the shape C8 claims of a context cx assembled from rows ms and sums
ContextShape(cx, ms, sums) ==
    /\ Len(cx) >= 1
    /\ cx[1].role = "system" /\ cx[1].content = SystemPromptText
    /\ sums # << >> =>
          /\ Len(cx) >= 2
          /\ cx[2].kind = "summary"
          /\ cx[2].role = "assistant"
          /\ cx[2].content.marker = "ctx"
          /\ \A j \in 1..Len(sums) : sums[j].at <= cx[2].at
          /\ \E j \in 1..Len(sums) : sums[j].at = cx[2].at /\ cx[2].id = j
          /\ \A i \in 3..Len(cx) : cx[i].kind = "message" /\ cx[i].at > cx[2].at
    /\ \A i \in 2..Len(cx) :
          cx[i].kind = "message" =>
             /\ cx[i].id \in 1..Len(ms)
             /\ cx[i].at = ms[cx[i].id].at
             /\ cx[i].role = ms[cx[i].id].role
             /\ cx[i].content = ms[cx[i].id].content
    /\ \A i, j \in 1..Len(cx) :
          (i < j /\ cx[i].kind = "message" /\ cx[j].kind = "message")
             => cx[i].id # cx[j].id

\* C8: every context _assemble_context returns starts with the system
\* prompt; when the thread has a summary the latest one is second, no message
\* created at or before it follows, and no stored message appears twice.
C8_ContextShape ==
    [][\A c \in Calls :
          (pc[c] = "assemble" /\ pc'[c] = "generate") =>
             ContextShape(ctx'[c], msgs[cthread[c]], summaries[cthread[c]])]_vars

\* a context holds the summary and, after it, a later message
C8_Witness ==
    \E c \in Calls :
        /\ Len(ctx[c]) >= 3
        /\ ctx[c][2].kind = "summary"
        /\ ctx[c][3].kind = "message"

\* C9: with no stored summary and M stored messages the context is the
\* system prompt followed by exactly the min(M, max_context_messages) most
\* recent messages, oldest first.
C9_RecentTail ==
    [][\A c \in Calls :
          (pc[c] = "assemble" /\ pc'[c] = "generate" /\ summaries[cthread[c]] = << >>) =>
             LET ms == msgs[cthread[c]]
                 M == Len(ms)
                 k == IF M <= MaxContextMessages THEN M ELSE MaxContextMessages
                 cx == ctx'[c]
             IN /\ Len(cx) = 1 + k
                /\ cx[1].role = "system" /\ cx[1].content = SystemPromptText
                /\ \A i \in 1..k :
                      /\ cx[1 + i].kind = "message"
                      /\ cx[1 + i].id = M - k + i
                      /\ cx[1 + i].role = ms[M - k + i].role
                      /\ cx[1 + i].content = ms[M - k + i].content
                      /\ cx[1 + i].at = ms[M - k + i].at
                /\ \A i \in 2..k : cx[i].at < cx[1 + i].at]_vars

\* 25 stored messages and a cap of 20: the context is the prompt and
\* messages #6..#25
C9_Witness ==
    \E c \in Calls :
        /\ Len(ctx[c]) = 1 + MaxContextMessages
        /\ ctx[c][2].kind = "message" /\ ctx[c][2].id = 6
        /\ ctx[c][1 + MaxContextMessages].id = 25

\* the entries C10 calls preserved
PreservedEntry(m) ==
    \/ m.role = "system"
    \/ m.role = "assistant" /\ m.content.marker \in {"summary", "ctx"}

\* C10: with the default flags the result keeps exactly the preserved
\* entries of the input, unchanged and in order, and when they alone
\* estimate below max_tokens the result estimates at most max_tokens.
C10_TrimKeepsPreservedAndFits ==
    (tpc = "trimmed" /\ tflags = <<TRUE, TRUE>>) =>
        /\ SelectSeq(tout, PreservedEntry) = SelectSeq(tin, PreservedEntry)
        /\ count_messages_tokens(SelectSeq(tin, PreservedEntry), tmodel) < tmax
              => count_messages_tokens(tout, tmodel) <= tmax

\* a trim that kept a preserved entry and a history message and dropped an
\* older history message
C10_Witness ==
    /\ tpc = "trimmed" /\ tflags = <<TRUE, TRUE>>
    /\ Len(tout) < Len(tin)
    /\ \E i, j \in 1..Len(tout) : PreservedEntry(tout[i]) /\ ~PreservedEntry(tout[j])

\* C11: trimming the result of a trim again, with the same model, budget and
\* flags, returns the same list.
C11_TrimIdempotent ==
    [][(tpc = "trimmed" /\ tpc' = "retrimmed") => tout' = tout]_vars

\* a trim that dropped a message and kept two history messages has been
\* trimmed again
C11_Witness ==
    /\ tpc = "retrimmed"
    /\ Len(tout) < Len(tin)
    /\ \E i, j \in 1..Len(tout) :
          i < j /\ ~PreservedEntry(tout[i]) /\ ~PreservedEntry(tout[j])

\* the history partition of a list under the flags of the trim
HistoryOf(messages, flags) ==
    LET Hist(m) == ~IsPreserved(m, flags[1], flags[2])
    IN SelectSeq(messages, Hist)

PreservedOf(messages, flags) ==
    LET Keep(m) == IsPreserved(m, flags[1], flags[2])
    IN SelectSeq(messages, Keep)

\* content estimate plus per-message overhead, summed over a list
HistoryCost(messages, model) == SumTokens(messages, Len(messages), model)

\* C12: the history a trim keeps is a suffix of the history partition, in
\* original order; it is empty when the preserved entries reach the budget,
\* and otherwise it is the longest suffix whose cost fits the budget left by
\* the preserved entries: the next older message did not fit, and nothing
\* older than it is kept.
C12_HistoryIsNewestSuffix ==
    tpc = "trimmed" =>
        LET H == HistoryOf(tin, tflags)
            K == HistoryOf(tout, tflags)
            remaining == tmax - count_messages_tokens(PreservedOf(tin, tflags), tmodel)
        IN /\ Len(K) <= Len(H)
           /\ \A i \in 1..Len(K) : K[i] = H[Len(H) - Len(K) + i]
           /\ (remaining <= 0 /\ tin # << >>) => K = << >>
           /\ remaining > 0 =>
                 /\ HistoryCost(K, tmodel) <= remaining
                 /\ Len(K) < Len(H) =>
                       HistoryCost(K, tmodel)
                         + HistoryCost(<<H[Len(H) - Len(K)]>>, tmodel) > remaining

\* a trim kept the newest history message and stopped at one that did not
\* fit, although an older message would have fitted what was left
C12_Witness ==
    /\ tpc = "trimmed"
    /\ LET H == HistoryOf(tin, tflags)
           K == HistoryOf(tout, tflags)
           remaining == tmax - count_messages_tokens(PreservedOf(tin, tflags), tmodel)
       IN /\ Len(K) >= 1
          /\ Len(H) >= Len(K) + 2
          /\ \E i \in 1..(Len(H) - Len(K) - 1) :
                HistoryCost(K, tmodel) + HistoryCost(<<H[i]>>, tmodel) <= remaining

\* the upstream behaviours that make an attempt fail otherwise than by a
\* transport timeout
FailsWithoutTimeout(up) ==
    \/ up.kind = "network"
    \/ up.kind = "response" /\ up.status # 200
    \/ up.kind = "response" /\ up.status = 200 /\ up.body = "no_choices"

Succeeds(up) ==
    up.kind = "response" /\ up.status = 200 /\ up.body \in {"full", "bare"}

\* C13: a call makes at most 3 attempts and every attempt but the last one
\* timed out; an attempt that succeeds ends the call with that attempt's
\* result; a timeout in the first or second attempt is followed by another
\* attempt; the timeout reaches the caller exactly when the third attempt
\* has timed out.
C13_RetriesOnlyTimeouts ==
    /\ gtries <= 3
    /\ Len(glog) = gtries
    /\ \A i \in 1..(Len(glog) - 1) : glog[i].kind = "timeout"
    /\ (glog # << >> /\ Succeeds(glog[Len(glog)])) =>
          /\ gpc = "returned"
          /\ gout.result = attempt_once(gmodel, glog[Len(glog)]).result
          /\ gout.result.content = "reply"
    /\ (glog # << >> /\ glog[Len(glog)].kind = "timeout" /\ gtries < 3) =>
          gpc \in {"waiting", "attempting"}
    /\ (gpc = "raised" /\ gout.exc.class = "httpx.TimeoutException") =>
          /\ gtries = 3
          /\ \A i \in 1..3 : glog[i].kind = "timeout"
    /\ (gtries = 3 /\ glog[3].kind = "timeout") =>
          gpc = "raised" /\ gout.exc.class = "httpx.TimeoutException"

\* the third attempt succeeded after two timeouts and its result was returned
C13_Witness ==
    /\ gpc = "returned"
    /\ gtries = 3
    /\ glog[1].kind = "timeout" /\ glog[2].kind = "timeout"

\* C14: an attempt that fails otherwise than by a timeout is the last
\* attempt of its call: the call ends at once with the error of that attempt,
\* and when it was the first attempt exactly one attempt was made.
C14_OtherFailuresNotRetried ==
    \A i \in 1..Len(glog) :
        FailsWithoutTimeout(glog[i]) =>
            /\ i = Len(glog)
            /\ gtries = i
            /\ gpc = "raised"
            /\ gout.exc = attempt_once(gmodel, glog[i]).exc
            /\ gout.exc.class # "httpx.TimeoutException"

\* a call whose first attempt got HTTP 429 has ended with the rate-limit
\* error after one attempt
C14_Witness ==
    /\ gpc = "raised"
    /\ gtries = 1
    /\ glog[1].status = 429
    /\ gout.exc.class = "OpenRouterRateLimitError"

\* C15 (as claimed): every error a call raises is of one of the claimed
\* classes: the timeout, the rate-limit error with the upstream retry-after
\* value, the auth error, a bad-request error with the upstream detail, an
\* upstream error naming the status, or a network error.
C15_EveryFailureClassified ==
    gpc = "raised" =>
        LET up == glog[Len(glog)]
            e == gout.exc
        IN /\ e.class \in {"httpx.TimeoutException", "OpenRouterRateLimitError",
                           "OpenRouterAuthError", "OpenRouterError"}
           /\ up.kind = "timeout" => e.class = "httpx.TimeoutException"
           /\ up.status = 429 =>
                 /\ e.class = "OpenRouterRateLimitError"
                 /\ up.header # "none" => e.retry_after = up.header
           /\ up.status = 401 => e.class = "OpenRouterAuthError"
           /\ up.status = 400 =>
                 /\ e.class = "OpenRouterError" /\ e.message = "Bad request"
                 /\ up.body = "json_message" => e.detail = "upstream error message"
           /\ (up.kind = "response" /\ up.status \notin {200, 400, 401, 429}) =>
                 /\ e.class = "OpenRouterError"
                 /\ e.message = "OpenRouter API error" /\ e.status = up.status
           /\ up.kind = "network" =>
                 e.class = "OpenRouterError" /\ e.message = "Network error"

CallsAre(roles) ==
    /\ Len(pcalls) = Len(roles)
    /\ \A i \in 1..Len(roles) :
          /\ pcalls[i].model = agents[roles[i]].model
          /\ pcalls[i].system = agents[roles[i]].system_prompt

\* C17: when the query is classified as not complex and force_full_pipeline
\* is false, a collaborate call that returns has issued exactly two gateway
\* calls, the planner's and then the writer's, and its final_response is the
\* content the writer's call returned.
C17_SimpleQuerySkipsReviewer ==
    (ppc = "returned" /\ ~pst.complexity.is_complex /\ ~pin.force_full_pipeline)
        => /\ CallsAre(<<"planner", "writer">>)
           /\ pcalls[2].outcome.ok
           /\ pout.result.final_response = pcalls[2].outcome.content

C17_Witness ==
    /\ ppc = "returned"
    /\ ~pst.complexity.is_complex
    /\ ~pin.force_full_pipeline
    /\ Len(pcalls) = 2
    /\ pout.result.final_response = ReplyText("draft", 2400, 1300)

\* C18: when the query is classified as complex or force_full_pipeline is
\* true, a collaborate call that returns has issued exactly three gateway
\* calls, with the planner's, the writer's and the reviewer's model in this
\* order, and its final_response is the content the reviewer's call
\* returned; with force_full_pipeline true this holds whatever the query is.
C18_FullPipelineOrder ==
    (ppc = "returned" /\ (pst.complexity.is_complex \/ pin.force_full_pipeline))
        => /\ CallsAre(<<"planner", "writer", "reviewer">>)
           /\ pcalls[3].outcome.ok
           /\ pout.result.final_response = pcalls[3].outcome.content

C18_Witness ==
    /\ ppc = "returned"
    /\ ~pst.complexity.is_complex
    /\ pin.force_full_pipeline
    /\ Len(pcalls) = 3
    /\ pout.result.final_response = ReplyText("final", 900, 400)

\* a gateway call that ended with an exception
Failed(call) == ~call.outcome.ok /\ call.outcome.exc # NoExc

\* C19: when the gateway call of a stage ends with an exception, collaborate
\* raises that same exception, the failed call is the last call issued, and
\* no result is returned.
C19_StageFailurePropagates ==
    \A i \in 1..Len(pcalls) :
        Failed(pcalls[i])
            => /\ i = Len(pcalls)
               /\ ppc = "raised"
               /\ pout.exc = pcalls[i].outcome.exc
               /\ pout.result = NoPipeResult

C19_Witness ==
    /\ ppc = "raised"
    /\ pst.use_reviewer
    /\ Len(pcalls) = 2
    /\ Failed(pcalls[2])
    /\ pout.exc = pcalls[2].outcome.exc

\* whether a text holds a keyword, in any letter case
Holds(occurrence) == occurrence # "none"

C21_SummaryLengthBounded ==
    fpc = "returned" => fret.len <= fargs.max_chars + ELISION_MARKER_LEN

\* C25: a call made with the reviewer's system prompt has a prompt that
\* embeds the query, the plan and extract_key_sections(draft, 800), and that
\* text is never the whole draft.
C25_ReviewerNeverSeesFullDraft ==
    \A i \in 1..Len(pcalls) :
        pcalls[i].system = agents["reviewer"].system_prompt
            => /\ pcalls[i].user.query = pin.query
               /\ pcalls[i].user.plan = pst.plan
               /\ pcalls[i].user.draft_summary = extract_key_sections(pst.draft, 800)
               /\ pcalls[i].user.draft_summary.kind # "whole_draft"

\* the models the updates made so far gave to a role, oldest first
RECURSIVE ModelsGiven(_, _, _)
ModelsGiven(updates, i, role) ==
    IF i = 0 THEN << >>
    ELSE ModelsGiven(updates, i - 1, role)
         \o (IF updates[i].role = role THEN <<updates[i].model>> ELSE << >>)

\* the record of a role as shipped, with the given model
Shipped(role, model) ==
    [DEFAULT_AGENTS[role] EXCEPT !.model = model]

\* a complete record of the role: as shipped, or as one of the updates of
\* the role left it
CompleteRecord(config, role) ==
    LET given == ModelsGiven(fargs, Len(fargs), role)
    IN \/ config = DEFAULT_AGENTS[role]
       \/ \E i \in 1..Len(given) : config = Shipped(role, given[i])

\* C22: after update_agent_model(role, m) the record of the role has model m
\* and the role, system_prompt and description it had before; the records of
\* the roles that were not updated are as before; and every record a reader
\* has got (get_agent_config, or collaborate reading a stage's config) is a
\* complete record: the old one or the one some update stored.
C22_UpdateReplacesWholeRecord ==
    /\ \A role \in AgentRoles :
          LET given == ModelsGiven(fargs, Len(fargs), role)
          IN agents[role] = IF given = << >> THEN DEFAULT_AGENTS[role]
                            ELSE Shipped(role, given[Len(given)])
    /\ fpc = "read" => CompleteRecord(fret, fret.role)
    /\ pst.planner_config # NoConfig => CompleteRecord(pst.planner_config, "planner")
    /\ pst.writer_config # NoConfig => CompleteRecord(pst.writer_config, "writer")
    /\ pst.reviewer_config # NoConfig => CompleteRecord(pst.reviewer_config, "reviewer")

C22_Witness ==
    /\ Len(fargs) = 2
    /\ fargs[1].role = "writer" /\ fargs[2].role = "writer"
    /\ fargs[1].model # fargs[2].model
    /\ ppc = "returned"
    /\ pst.writer_config = Shipped("writer", fargs[1].model)
    /\ fpc = "read"
    /\ fret = Shipped("writer", fargs[2].model)
    /\ agents["planner"] = DEFAULT_AGENTS["planner"]

\* C23: should_trigger(thread_id) returns true exactly when the id is the id
\* of a stored thread whose message_count is above 0 and an exact multiple
\* of the threshold; for every other count, for an id with no thread and for
\* an id that is no UUID it returns false.
C23_TriggerAtMultiples ==
    fpc = "returned"
        => (fret <=> \E t \in Threads :
                        /\ fargs.thread_id = t
                        /\ count[t] > 0
                        /\ \E k \in 1..MaxStored : count[t] = k * SummarizationThreshold)

C23_Witness ==
    /\ fpc = "returned"
    /\ fargs.thread_id = "A"
    /\ count["A"] = 20
    /\ fret

\* C24: under every interleaving of _get_thread_lock calls the registry
\* holds one lock per thread id: an entry once created is never replaced or
\* removed, every call gets the object the registry holds for its id, and
\* two calls get the same object exactly when their ids are the same.
C24_OneLockPerThread ==
    [][/\ \A t \in ThreadIds : locks[t] # 0 => locks'[t] = locks[t]
       /\ \A c \in Calls : lockOf'[c] # 0 => lockOf'[c] = locks'[cthread'[c]]
       /\ \A c, d \in Calls :
             (lockOf'[c] # 0 /\ lockOf'[d] # 0)
                 => (cthread'[c] = cthread'[d] <=> lockOf'[c] = lockOf'[d])]_vars

C24_Witness ==
    /\ cthread[1] = cthread[2]
    /\ lockOf[1] # 0
    /\ lockOf[2] = lockOf[1]
    /\ created = 1

\* the estimates of the contents of the messages from the i-th on, each
\* with the per-message overhead
RECURSIVE EstimatesFrom(_, _, _)
EstimatesFrom(messages, i, model) ==
    IF i > Len(messages) THEN 0
    ELSE (count_tokens(messages[i].content, model) + MESSAGE_TOKEN_OVERHEAD)
         + EstimatesFrom(messages, i + 1, model)

\* C26: count_messages_tokens(messages, model) is the sum over the messages
\* of the estimate of the content plus the per-message overhead, plus the
\* conversation overhead once; for the empty list it is the conversation
\* overhead.
C26_MessagesTokensIsSum ==
    (fpc = "returned" /\ fret.of = "count_messages_tokens")
        => /\ fret.value = EstimatesFrom(fargs.messages, 1, fargs.model)
                           + CONVERSATION_TOKEN_OVERHEAD
           /\ fargs.messages = << >> => fret.value = CONVERSATION_TOKEN_OVERHEAD

C26_Witness ==
    /\ fpc = "returned"
    /\ fret.of = "count_messages_tokens"
    /\ Len(fargs.messages) = 3
    /\ fargs.model = ApproxModel
    /\ fargs.messages[1].content.len = 5
    /\ fargs.messages[2].content.len = 36
    /\ fargs.messages[3].content.len = 16
    /\ fret.value = (1 + 4) + (9 + 4) + (4 + 4) + 3

\* C27, as stated: for a model without an exact tokenizer count_tokens(text,
\* model) is len(text) / 4 rounded up, and 0 for the empty text.
C27_ApproximationRoundsUp ==
    (fpc = "returned" /\ fret.of = "count_tokens" /\ ~HasEncoder(fargs.model))
        => /\ 4 * fret.value >= fargs.text.len
           /\ 4 * (fret.value - 1) < fargs.text.len
           /\ fargs.text.len = 0 => fret.value = 0

\* C27, amended: for a model without an exact tokenizer count_tokens(text,
\* model) is len(text) / 4 rounded down, and 0 for the empty text.
C27_ApproximationRoundsDown ==
    (fpc = "returned" /\ fret.of = "count_tokens" /\ ~HasEncoder(fargs.model))
        => /\ 4 * fret.value <= fargs.text.len
           /\ 4 * (fret.value + 1) > fargs.text.len
           /\ fargs.text.len = 0 => fret.value = 0

C27_Witness ==
    /\ fpc = "returned"
    /\ fret.of = "count_tokens"
    /\ fargs.model = ApproxModel
    /\ fargs.text.len = 7
    /\ fret.value = 1

\* the stage of the pipeline a position of collaborate belongs to
StageOf(position) ==
    CASE position \in {"start", "planner_call", "planner_wait"} -> "Planning"
      [] position \in {"writer_call", "writer_wait", "reviewer_stage"} -> "Writing"
      [] position = "reviewer_wait" -> "Reviewing"
      [] position = "build" -> IF pst.use_reviewer THEN "Reviewing" ELSE "Skipped"
      [] position = "returned" -> "Done"
      [] OTHER -> "Failed"

\* the moves between stages that the pipeline allows
StageMoves ==
    {<<"Planning", "Writing">>, <<"Writing", "Reviewing">>,
     <<"Writing", "Skipped">>, <<"Reviewing", "Done">>, <<"Skipped", "Done">>,
     <<"Planning", "Failed">>, <<"Writing", "Failed">>, <<"Reviewing", "Failed">>}

InFlight == {i \in 1..Len(pcalls) : pcalls[i].outcome = PendingReply}

\* C28: collaborate starts in Planning and moves Planning -> Writing ->
\* (Reviewing | Skipped) -> Done, leaving this path only when a stage call
\* fails; the writer's call is issued after the planner's has returned and
\* its prompt embeds the plan the planner returned; the reviewer's call is
\* issued after the writer's has returned; at most one stage call is in
\* flight; and every run ends, in Done when no stage call failed.
C28_StagesInSequence ==
    /\ StageOf(ppc) = "Planning"
    /\ [][LET from == StageOf(ppc)
              to == StageOf(ppc)'
          IN from # to => <<from, to>> \in StageMoves]_vars
    /\ [](/\ Cardinality(InFlight) <= 1
          /\ Len(pcalls) >= 2
                => /\ pcalls[1].outcome.ok
                   /\ pcalls[2].user.plan = pcalls[1].outcome.content
          /\ Len(pcalls) >= 3 => pcalls[2].outcome.ok
          /\ StageOf(ppc) = "Failed" => \E i \in 1..Len(pcalls) : Failed(pcalls[i]))
    /\ <>(StageOf(ppc) \in {"Done", "Failed"})

C28_Witness ==
    /\ ppc = "returned"
    /\ ~pst.use_reviewer
    /\ Len(pcalls) = 2
    /\ pcalls[2].user.plan = ReplyText("plan", 180, 180)

\* the steps of one process_user_message call, as the position a call leaves
\* when it takes the step
ContextBuilt(c) == pc[c] = "assemble" /\ pc'[c] # "assemble"
GatewayCalled(c) == pc[c] = "generate" /\ pc'[c] # "generate"
SchedulerConsulted(c) == pc[c] = "trigger" /\ pc'[c] # "trigger"
ResponseReturned(c) == pc[c] # "done" /\ pc'[c] = "done"

\* the Lock object the call got from the registry is locked
LockHeld(c) == lockOf[c] # 0 /\ lk[lockOf[c]].locked

\* C29, as stated: the context is built and the gateway is called under the
\* thread lock, the scheduler is consulted, and a summary task started, only
\* once the gateway has been called, and the response is returned after
\* that.
C29_SchedulerAfterGateway ==
    [][\A c \in Calls :
          /\ ContextBuilt(c) => LockHeld(c)
          /\ GatewayCalled(c) => (LockHeld(c) /\ ctx[c] # << >>)
          /\ SchedulerConsulted(c) => sent[c] # << >>
          /\ bg'[c] # bg[c] /\ bg[c] = "none" => sent[c] # << >>
          /\ ResponseReturned(c) => sent[c] # << >>]_vars

\* the positions of a call inside `async with lock`, in the order the code
\* passes them
CallOrder ==
    <<"locked", "store_user", "trigger", "assemble", "generate", "store_asst", "done">>

PlaceOf(position) ==
    IF \E i \in 1..Len(CallOrder) : CallOrder[i] = position
    THEN CHOOSE i \in 1..Len(CallOrder) : CallOrder[i] = position
    ELSE 0

\* C29, amended: a call admitted under the thread lock stores the user
\* message, then consults the scheduler and (if due) starts the summary
\* task, then builds the bounded context, then calls the gateway, and then
\* returns the response: each step is taken under the lock, from the
\* position the step before it left, and the summary task is started by the
\* consulting step only, before the context is built.
C29_SchedulerBeforeContext ==
    [][\A c \in Calls :
          /\ (PlaceOf(pc[c]) > 0 /\ pc'[c] # pc[c])
                => /\ LockHeld(c)
                   /\ pc'[c] = "failed" \/ PlaceOf(pc'[c]) = PlaceOf(pc[c]) + 1
          /\ SchedulerConsulted(c)
                => /\ brought[c] # << >>
                   /\ ctx[c] = << >> /\ sent[c] = << >>
                   /\ bg'[c] # "none" <=> should_trigger(count[cthread[c]])
          /\ bg[c] = "none" /\ bg'[c] # "none" => SchedulerConsulted(c)
          /\ ctx'[c] # ctx[c] => ContextBuilt(c)
          /\ sent'[c] # sent[c] => (GatewayCalled(c) /\ ctx[c] # << >>)
          /\ ResponseReturned(c) => (sent[c] # << >> /\ result'[c] = "response")]_vars

C29_Witness ==
    \E c \in Calls :
        /\ pc[c] = "done"
        /\ result[c] = "response"
        /\ bg[c] # "none"
        /\ ctx[c] # << >>
        /\ sent[c] # << >>

\* the stored summaries of a thread that a trigger (the summary task of one
\* call) has written
StoredBy(t, c) == {i \in 1..Len(summaries[t]) : summaries[t][i].by = c}

\* C30: under every interleaving of the summary tasks with the message
\* processing of their thread, each trigger stores at most one summary and no
\* two stored summaries of a thread cover the same set of message ids.
C30_NoDuplicateSummaries ==
    \A t \in Threads :
        /\ \A c \in DOMAIN bg : Cardinality(StoredBy(t, c)) <= 1
        /\ \A i, j \in 1..Len(summaries[t]) :
              i # j => summaries[t][i].covered # summaries[t][j].covered

\* C31: generate_summary on a thread with no stored message returns None
\* with its first step, without raising: it never reaches the gateway call,
\* and it stores no summary record.
C31_NoMessagesNoSummary ==
    [][\A c \in Calls :
          (bg[c] = "read" /\ bg'[c] # "read" /\ msgs[cthread[c]] = << >>)
              => /\ bg'[c] = "done"
                 /\ bgInner'[c] = "none_no_messages"
                 /\ bgTask'[c] # "raised"
                 /\ summaries' = summaries
                 /\ StoredBy(cthread[c], c)' = {}]_vars

C31_Witness ==
    \E c \in Calls :
        /\ cthread[c] = "B"
        /\ bg[c] = "done"
        /\ bgInner[c] = "none_no_messages"
        /\ summaries["B"] = << >>

\* the roles of the recorded steps, in the order of the list
StepRoles(steps) == [i \in 1..Len(steps) |-> steps[i].role]

\* C32: a collaborate call that returns has recorded three steps, numbered 1,
\* 2, 3, for planner, writer and reviewer in this order (they are in the
\* result when include_process is set); when the reviewer was skipped the
\* third step has the model "skipped", no tokens, and a skipped_reason that
\* carries the complexity score of the call.
C32_SkippedStepRecorded ==
    ppc = "returned"
        => LET steps == pst.process_steps
           IN /\ StepRoles(steps) = <<"planner", "writer", "reviewer">>
              /\ \A i \in 1..3 : steps[i].step = i
              /\ pout.result.has_process => pout.result.steps = steps
              /\ ~pout.result.reviewer_used
                    => /\ steps[3].model = "skipped"
                       /\ steps[3].tokens = 0
                       /\ steps[3].skipped_score = pout.result.complexity.score
                       /\ steps[3].skipped_score >= 0
              /\ pout.result.reviewer_used => steps[3].skipped_score = -1

C32_Witness ==
    /\ ppc = "returned"
    /\ ~pout.result.reviewer_used
    /\ pout.result.has_process
    /\ Len(pout.result.steps) = 3
    /\ pout.result.steps[3].model = "skipped"
    /\ pout.result.steps[3].skipped_score = 3

RECURSIVE TokensReturned(_, _)
\* the tokens the ended stage calls returned, summed over the first n calls
TokensReturned(calls, n) ==
    IF n = 0 THEN 0 ELSE TokensReturned(calls, n - 1) + calls[n].outcome.tokens

\* C33: in a collaborate call that returns, metadata.total_tokens is the sum
\* of the token counts the stage calls returned: the planner's and the
\* writer's, and the reviewer's exactly when the reviewer ran.
C33_TotalTokensIsSum ==
    ppc = "returned"
        => /\ Len(pcalls) = (IF pout.result.reviewer_used THEN 3 ELSE 2)
           /\ pout.result.total_tokens = TokensReturned(pcalls, Len(pcalls))
           /\ pout.result.total_tokens
                 = pst.planner_tokens + pst.writer_tokens
                   + (IF pout.result.reviewer_used THEN pst.reviewer_tokens ELSE 0)

C33_Witness ==
    /\ ppc = "returned"
    /\ pout.result.reviewer_used
    /\ Len(pcalls) = 3
    /\ \A i \in 1..3 : pcalls[i].outcome.tokens = 120
    /\ pout.result.total_tokens = 360

\* C34: the score classify_complexity gives a query with a context is never
\* below the score it gives the same query without a context, and it is
\* above it by at least 1 when the context is longer than 50 characters.
C34_ContextNeverLowersScore ==
    ppc = "planner_call"
        => LET with_context == pst.complexity.score
               without_context == classify_complexity(pin.query, NoContext).score
           IN /\ with_context >= without_context
              /\ (pin.context.given /\ pin.context.len > 50)
                    => with_context >= without_context + 1

C34_Witness ==
    /\ ppc = "planner_call"
    /\ pin.context.given
    /\ pin.context.len = 51
    /\ Holds(pin.query.analysis)
    /\ ~Holds(pin.context.analysis)
    /\ pst.complexity.score = classify_complexity(pin.query, NoContext).score + 1

\* the call's context went to the gateway: the gateway answered or failed
ReachedGateway(c) ==
    \/ pc[c] = "store_asst"
    \/ result[c] \in {"response", "gateway_error"}

\* the user message the call stored is one of the entries of the context
\* assembled for the call
OwnMessageInContext(c) ==
    \E i \in 1..Len(ctx[c]) :
        /\ ctx[c][i].kind = "message"
        /\ ctx[c][i].role = "user"
        /\ ctx[c][i].id = brought[c][1]

\* C35: in every process_user_message call that reaches the gateway, the
\* context assembled for the call (before trimming) contains the user
\* message the call has just stored, whatever the length of the history and
\* whether or not the thread has a summary.
C35_OwnMessageInContext ==
    \A c \in DOMAIN pc : ReachedGateway(c) => OwnMessageInContext(c)

\* ids of the messages of the thread that were not yet committed when the
\* generation of the summary read its input: the ids above those it covers
AppendedAfterRead(th, summary) ==
    {m \in 1..Len(msgs[th]) : \A k \in summary.covered : m > k}

\* C36: a message appended to a thread after a summary generation has read
\* its input messages is not excluded from later contexts by the timestamp
\* of that summary: whenever the summary is the latest of the thread, the
\* created_at of every such message is after the summary's created_at.
C36_LaterMessagesStayInContext ==
    \A th \in Threads :
        \A i \in LatestSummaries(summaries[th]) :
            \A m \in AppendedAfterRead(th, summaries[th][i]) :
                msgs[th][m].at > summaries[th][i].at

\* C37: whatever process_user_message calls have run on a thread, ended with
\* a response or with an error, the thread's message_count is the number of
\* messages stored for the thread, and no step lowers it.
C37_CountMatchesMessages ==
    /\ [](\A th \in Threads : count[th] = Len(msgs[th]))
    /\ [][\A th \in Threads : count'[th] >= count[th]]_vars

C37_Witness ==
    /\ \E c \in Calls : result[c] = "gateway_error" /\ Len(brought[c]) = 1
    /\ \E c \in Calls : result[c] = "response" /\ Len(brought[c]) = 2
    /\ count["A"] = 11
    /\ Len(msgs["A"]) = 11

\* the errors process_user_message raises inside `async with lock`
CriticalSectionErrors ==
    {"invalid_thread_id", "thread_not_found", "invalid_model", "gateway_error"}

\* C38: a process_user_message call that fails inside the critical section
\* (invalid thread id, thread not found, invalid model, gateway error)
\* leaves the thread's lock released, and a call that waits for the lock of
\* a thread eventually enters the critical section.
C38_LockReleasedOnFailure ==
    /\ [][\A c \in Calls :
             (InCriticalSection(c) /\ pc'[c] = "failed")
                 => /\ result'[c] \in CriticalSectionErrors
                    /\ ~lk'[lockOf[c]].locked
                    /\ lk'[lockOf[c]].woken = (lk[lockOf[c]].waiters # << >>)]_vars
    /\ \A c \in Calls : (pc[c] = "blocked") ~> InCriticalSection(c)

C38_Witness ==
    \E c, d \in Calls :
        /\ c # d
        /\ lockOf[c] = lockOf[d]
        /\ pc[d] = "failed"
        /\ result[d] = "gateway_error"
        /\ pc[c] = "blocked"
        /\ ~lk[lockOf[c]].locked
        /\ lk[lockOf[c]].woken

\* C39: when process_user_message fails after the thread was found (invalid
\* model, gateway error) the failing step stores and removes nothing, the
\* thread holds the call's user message as its last message, message_count
\* is one above the count the call loaded, and the call has stored no
\* assistant message; when it fails on the thread id (invalid, or no such
\* thread) the call has stored nothing and the failing step stores nothing.
C39_FailureKeepsUserMessage ==
    [][\A c \in Calls :
          (pc[c] # "failed" /\ pc'[c] = "failed")
              => /\ msgs' = msgs
                 /\ count' = count
                 /\ IF result'[c] \in {"invalid_model", "gateway_error"}
                    THEN LET th == cthread[c]
                         IN /\ th \in Threads
                            /\ brought[c] = <<seen[c] + 1>>
                            /\ count[th] = seen[c] + 1
                            /\ Len(msgs[th]) = seen[c] + 1
                            /\ msgs[th][Len(msgs[th])].role = "user"
                    ELSE /\ result'[c] \in {"invalid_thread_id", "thread_not_found"}
                         /\ brought[c] = << >>]_vars

C39_Witness ==
    \E c, d \in Calls :
        /\ pc[c] = "failed"
        /\ result[c] = "invalid_model"
        /\ brought[c] = <<9>>
        /\ count["A"] = 9
        /\ msgs["A"][9].role = "user"
        /\ pc[d] = "failed"
        /\ result[d] = "thread_not_found"
        /\ brought[d] = << >>

\* the roles of the stages, in the order of their calls
StageRoles == <<"planner", "writer", "reviewer">>

\* C40: for every stage of collaborate, the model recorded for the stage in
\* the steps and, once the call has returned, in metadata.agents_used is the
\* model that was passed to the gateway for the stage, whatever
\* update_agent_model calls ran meanwhile; a skipped reviewer is recorded
\* with the model "skipped" and has no gateway call.
C40_ReportedModelIsUsedModel ==
    /\ \A i \in 1..Len(pst.process_steps) :
          LET step == pst.process_steps[i]
          IN /\ step.role = StageRoles[i]
             /\ IF step.model = "skipped"
                THEN i = 3 /\ Len(pcalls) = 2
                ELSE i <= Len(pcalls) /\ step.model = pcalls[i].model
    /\ ppc = "returned"
          => \A i \in 1..3 :
                LET used == pout.result.agents_used[i]
                IN /\ used.role = StageRoles[i]
                   /\ IF i = 3 /\ ~pout.result.reviewer_used
                      THEN used.model = "skipped" /\ Len(pcalls) = 2
                      ELSE used.model = pcalls[i].model

C40_Witness ==
    /\ ppc = "returned"
    /\ pout.result.reviewer_used
    /\ agents["writer"].model # pcalls[2].model
    /\ agents["reviewer"].model # pcalls[3].model
    /\ pout.result.agents_used[2].model = pcalls[2].model
    /\ pout.result.agents_used[3].model = pcalls[3].model
    /\ pst.process_steps[2].model = pcalls[2].model

====
